---------------------------- MODULE Spec2Model ----------------------------
(***************************************************************************)
(* Model of the LSB steganography codec (src/lsb_steganography.py), of the *)
(* document-binding protocol (src/document_security.py), of the issue path *)
(* of bound QR codes (src/secure_qr_utils.py, src/qr_utils.py) and of the  *)
(* record migration (src/migration_utils.py).                              *)
(*                                                                         *)
(* Several specifications share the module:                                *)
(*   SpecStego     embed_qr_to_image, analyze_image_capacity and           *)
(*                 extract_qr_from_image over one output path, and         *)
(*                 extraction from images embed did not write;             *)
(*   SpecToken     fingerprinting, token issue, tampering and verification *)
(*                 under a clock that advances;                            *)
(*   SpecEnvelope  wrapping, parsing and the capacity check of the secure  *)
(*                 envelope;                                               *)
(*   SpecKey       concurrent DocumentBinder constructions against one key *)
(*                 file;                                                   *)
(*   SpecStorage   saving, loading and sweeping the binding records of one *)
(*                 directory;                                              *)
(*   SpecFrame     the header frame for payload dimensions up to 2^17;     *)
(*   SpecMigration migrate_record on a directory of hash-keyed records,    *)
(*                 and verification of the tokens it leaves;               *)
(*   SpecFlow      two generate_and_embed workflows sharing directories    *)
(*                 and a clock.                                            *)
(***************************************************************************)
EXTENDS Integers, Sequences, FiniteSets, TLC

VARIABLES
    \* ---- steganography ----
    pc,          \* "start" | "embedded" | "extracted"
    cover,       \* the cover image handed to embed_qr_to_image
    qr,          \* the payload (QR) image handed to embed_qr_to_image
    resize_flag, \* resize_qr_if_needed
    embedded,    \* what embed_qr_to_image did (EmbedResult)
    outFile,     \* the file at output_stego_path: NoImage when absent
    extracted,   \* what extract_qr_from_image did (ExtractResult)
    capacity,    \* what analyze_image_capacity reported for the cover
    compatibility, \* what check_qr_compatibility reported for cover and payload
    \* ---- document binding ----
    now,         \* int(time.time())
    secret_key,  \* DocumentBinder.secret_key
    nextUuid,    \* the next value uuid.uuid4() returns
    fp,          \* the fingerprint in the caller's hands (NoFp when none)
    token,       \* the token in the caller's hands (NoToken when none)
    issued,      \* the last issue call: its arguments and the token produced
    result,      \* the last verify call: its arguments and what it returned
    \* ---- secure envelope ----
    qrText,      \* the QR text in flight
    parsed,      \* what parse_secure_qr_data returned for it
    bound,       \* what the issue path of generate_bound_qr did
    \* ---- key file ----
    keyFile,     \* the bytes of security_key.bin (NoKey when absent)
    binder,      \* per DocumentBinder being constructed: its step and key
    keysMade,    \* how many keys secrets.token_bytes has produced
    \* ---- binding storage ----
    store,       \* binding_storage/: per key, the file <key>.json
    storeClock,  \* int(time.time()) as the storage operations read it
    saver,       \* the save_binding_record call in progress
    lastLoad,    \* the last load_binding_record: its key and what it returned
    swept,       \* the last cleanup_expired_records: directory before, count
    \* ---- migration ----
    migDir,      \* the storage directory the migration works in
    migrated,    \* the last migrate_record call and what was verified after it
    \* ---- embedding workflows ----
    flow,        \* per workflow call: its step and the paths it computed
    outputs,     \* per path written, the content of the file
    flowClock,   \* int(time.time()) as the workflows read it
    \* ---- header frame ----
    framed       \* an embedding followed by dimensions only, and its read-back

stegoVars ==
    <<pc, cover, qr, resize_flag, embedded, outFile, extracted, capacity, compatibility>>
tokenVars == <<now, secret_key, nextUuid, fp, token, issued, result>>
envVars == <<qrText, parsed, bound>>
keyVars == <<keyFile, binder, keysMade>>
storeVars == <<store, storeClock, saver, lastLoad, swept>>
migVars == <<migDir, migrated>>
flowVars == <<flow, outputs, flowClock>>
frameVars == <<framed>>
vars == <<pc, cover, qr, resize_flag, embedded, outFile, extracted, capacity,
          compatibility,
          now, secret_key, nextUuid, fp, token, issued, result,
          qrText, parsed, bound, keyFile, binder, keysMade,
          store, storeClock, saver, lastLoad, swept,
          migDir, migrated, flow, outputs, flowClock, framed>>

---------------------------------------------------------------------------
(* Bounds of the model *)

MaxCoverWidth == 46
MaxCoverHeight == 2
MinCoverPixels == 39
MaxCoverPixels == 46
MaxQrDim == 2
FullBitmapCells == 4
MaxPattern == 3
MaxSeed == 1

---------------------------------------------------------------------------
(* Images.  An image is [width, height, px]; px is row-major.  A cover or  *)
(* stego pixel is <<r, g, b>>; a mode-'1' pixel is 0 (black) or 255.       *)

NoImage == [width |-> 0, height |-> 0, px |-> <<>>]

Pixels(img) == img.width * img.height

getpixel(img, x, y) == img.px[y * img.width + x + 1]

\* Scenario B of the specification: a 20x20 cover and a 30x30 payload.
ScenarioCover == <<20, 20>>
ScenarioQr == <<30, 30>>

CoverDims ==
    { d \in (1..MaxCoverWidth) \X (1..MaxCoverHeight) :
          d[1] * d[2] \in MinCoverPixels..MaxCoverPixels }
    \cup {ScenarioCover}

CoverImage(w, h, seed) ==
    [width |-> w, height |-> h,
     px |-> [i \in 1..(w * h) |->
                <<(seed * 90 + 3 * i) % 256,
                  (seed * 50 + 5 * i) % 256,
                  (seed * 201 + 7 * i) % 256>>]]

Covers == { CoverImage(d[1], d[2], s) : d \in CoverDims, s \in 0..MaxSeed }

PatternPixel(k, i) == IF k > 0 /\ i % k = 0 THEN 0 ELSE 255

QrPixelSeqs(n) ==
    IF n <= FullBitmapCells
    THEN [1..n -> {0, 255}]
    ELSE { [i \in 1..n |-> PatternPixel(k, i)] : k \in 0..MaxPattern }

QrDims == ((1..MaxQrDim) \X (1..MaxQrDim)) \cup {ScenarioQr}

QrImages ==
    UNION { { [width |-> d[1], height |-> d[2], px |-> p] :
                p \in QrPixelSeqs(d[1] * d[2]) } : d \in QrDims }

---------------------------------------------------------------------------
(* Bit helpers.  A bit string is a sequence over {0, 1}.                   *)

HEADER_TERMINATOR_BIN == <<0, 0, 0, 0, 0, 0, 0, 0>>
HEADER_TERMINATOR_LEN == Len(HEADER_TERMINATOR_BIN)

RECURSIVE BinDigits(_)
BinDigits(n) == IF n < 2 THEN <<n>> ELSE Append(BinDigits(n \div 2), n % 2)

\* format(integer, '0{bits}b'): at least `bits` digits, zero-padded on the left.
int_to_binary(integer, bits) ==
    LET d == BinDigits(integer)
    IN  IF Len(d) >= bits THEN d ELSE [i \in 1..(bits - Len(d)) |-> 0] \o d

RECURSIVE binary_to_int(_)
binary_to_int(s) ==
    IF s = <<>> THEN 0
    ELSE 2 * binary_to_int(SubSeq(s, 1, Len(s) - 1)) + s[Len(s)]

\* The bit added to the sample instead of replacing its lowest bit.
embed_bit_add(pixel_value, bit) == (pixel_value + bit) % 256

\* pixel_value & 254, or pixel_value | 1
embed_bit(pixel_value, bit) ==
    IF bit = 0 THEN pixel_value - (pixel_value % 2)
    ELSE pixel_value - (pixel_value % 2) + 1

extract_lsb(pixel_value) == IF pixel_value % 2 = 1 THEN 1 ELSE 0

\* int(math.sqrt(n)) for n >= 0
ISqrt(n) == CHOOSE d \in 0..n : d * d <= n /\ (d + 1) * (d + 1) > n

---------------------------------------------------------------------------
(* embed_qr_to_image *)

\* qr_img.resize((w, h), Resampling.NEAREST): each output pixel takes the
\* source pixel under its centre.
resize_nearest(img, w, h) ==
    [width |-> w, height |-> h,
     px |-> [i \in 1..(w * h) |->
                getpixel(img,
                         ((2 * ((i - 1) % w) + 1) * img.width) \div (2 * w),
                         ((2 * ((i - 1) \div w) + 1) * img.height) \div (2 * h))]]

\* The resize computed from the whole capacity, the header not set aside.
resize_qr_for_capacity_no_header(qr_img, max_capacity) ==
    LET new_dimension == ISqrt(max_capacity)
    IN  IF max_capacity - (16 + 16 + HEADER_TERMINATOR_LEN) <= 0
        THEN [raised |-> TRUE, img |-> NoImage]
        ELSE IF qr_img.width <= new_dimension /\ qr_img.height <= new_dimension
        THEN [raised |-> FALSE, img |-> qr_img]
        ELSE [raised |-> FALSE,
              img |-> resize_nearest(qr_img, new_dimension, new_dimension)]

\* The resize that lets a cover of exactly 40 pixels through.
resize_qr_for_capacity_strict(qr_img, max_capacity) ==
    LET available_bits_for_qr == max_capacity - (16 + 16 + HEADER_TERMINATOR_LEN)
        new_dimension == ISqrt(available_bits_for_qr)
    IN  IF available_bits_for_qr < 0
        THEN [raised |-> TRUE, img |-> NoImage]
        ELSE IF qr_img.width <= new_dimension /\ qr_img.height <= new_dimension
        THEN [raised |-> FALSE, img |-> qr_img]
        ELSE [raised |-> FALSE,
              img |-> resize_nearest(qr_img, new_dimension, new_dimension)]

\* [raised, img]: raised when the cover cannot even hold the header.
resize_qr_for_capacity(qr_img, max_capacity) ==
    LET available_bits_for_qr == max_capacity - (16 + 16 + HEADER_TERMINATOR_LEN)
        new_dimension == ISqrt(available_bits_for_qr)
    IN  IF available_bits_for_qr <= 0
        THEN [raised |-> TRUE, img |-> NoImage]
        ELSE IF qr_img.width <= new_dimension /\ qr_img.height <= new_dimension
        THEN [raised |-> FALSE, img |-> qr_img]
        ELSE [raised |-> FALSE,
              img |-> resize_nearest(qr_img, new_dimension, new_dimension)]

\* '1' for a black pixel (0 in mode '1'), '0' for a white one, row by row.
qr_bits_of(qr_img) ==
    [i \in 1..Pixels(qr_img) |->
        IF getpixel(qr_img, (i - 1) % qr_img.width, (i - 1) \div qr_img.width) = 0
        THEN 1 ELSE 0]

header_bits_of(qr_width, qr_height) ==
    int_to_binary(qr_width, 16) \o int_to_binary(qr_height, 16)
        \o HEADER_TERMINATOR_BIN

EmbedRaised(msg) ==
    [outcome |-> "ValueError", error |-> msg, resized |-> FALSE,
     qr_img |-> NoImage, header_bits |-> <<>>, qr_bits |-> <<>>,
     pixels_processed |-> 0, stego_img |-> NoImage, cover_img |-> NoImage,
     saved |-> FALSE]

\* Steps 5-6: one bit per pixel into the blue LSB, row-major from (0,0).  The
\* image is saved in the StopIteration handler, that is when a pixel is
\* visited after the last bit was written; a loop that runs out of pixels
\* first falls through to the warning and the function returns.  The
\* writes go to stego_img, a copy; cover_img is the cover object afterwards.
embed_loop(cover_img, data_bits) ==
    LET n == Len(data_bits)
        p == Pixels(cover_img)
    IN  [stego_img |->
            [cover_img EXCEPT !.px =
                [i \in 1..p |->
                    IF i <= n
                    THEN <<cover_img.px[i][1], cover_img.px[i][2],
                           embed_bit(cover_img.px[i][3], data_bits[i])>>
                    ELSE cover_img.px[i]]],
         cover_img |-> cover_img,
         pixels_processed |-> IF n < p THEN n ELSE p,
         saved |-> n < p]

embed_after_resize(cover_img, qr_img, resized) ==
    LET max_capacity == cover_img.width * cover_img.height
        qr_bits == qr_bits_of(qr_img)
        header_bits == header_bits_of(qr_img.width, qr_img.height)
        total_bits_to_embed == Len(header_bits) + Len(qr_bits)
        loop == embed_loop(cover_img, header_bits \o qr_bits)
    IN  IF total_bits_to_embed > max_capacity
        THEN EmbedRaised("capacity_after_resize")
        ELSE [outcome |-> "returned", error |-> "", resized |-> resized,
              qr_img |-> qr_img, header_bits |-> header_bits,
              qr_bits |-> qr_bits,
              pixels_processed |-> loop.pixels_processed,
              stego_img |-> loop.stego_img, cover_img |-> loop.cover_img,
              saved |-> loop.saved]

embed_qr_to_image(cover_img, qr_img, resize_qr_if_needed) ==
    LET max_capacity == cover_img.width * cover_img.height
        header_bits_len == 16 + 16 + HEADER_TERMINATOR_LEN
        total_bits_needed == header_bits_len + qr_img.width * qr_img.height
    IN  IF total_bits_needed > max_capacity
        THEN IF resize_qr_if_needed
             THEN LET r == resize_qr_for_capacity(qr_img, max_capacity)
                  IN  IF r.raised THEN EmbedRaised("header_capacity")
                      ELSE embed_after_resize(cover_img, r.img, TRUE)
             ELSE EmbedRaised("capacity")
        ELSE embed_after_resize(cover_img, qr_img, FALSE)

---------------------------------------------------------------------------
(* extract_qr_from_image *)

ExtractRaised(kind, msg) ==
    [outcome |-> kind, error |-> msg, qr_width |-> 0, qr_height |-> 0,
     pixels_processed |-> 0, image |-> NoImage]

\* Blue LSB of every pixel, in reading order.
lsb_stream(img) == [i \in 1..Pixels(img) |-> extract_lsb(img.px[i][3])]

\* The test that looks at the last bit only.
EndsWithTerminator_last_bit(bits, n) == bits[n] = 0

EndsWithTerminator(bits, n) ==
    \A j \in 1..HEADER_TERMINATOR_LEN :
        bits[n - HEADER_TERMINATOR_LEN + j] = HEADER_TERMINATOR_BIN[j]

\* The tolerance of the header search (the literal at line 282).
HEADER_SEARCH_TOLERANCE == 500

\* The header loop without the tolerance test: it reads on to the last pixel.
header_scan_to_end(bits) ==
    LET num_header_bits == 16 + 16 + HEADER_TERMINATOR_LEN
        stops == { n \in num_header_bits..Len(bits) : EndsWithTerminator(bits, n) }
    IN  IF stops = {}
        THEN [found |-> FALSE, error |-> "header_not_found", n |-> Len(bits)]
        ELSE LET n == CHOOSE m \in stops : \A k \in stops : m <= k
             IN  IF n - HEADER_TERMINATOR_LEN = 32
                 THEN [found |-> TRUE, error |-> "", n |-> n]
                 ELSE [found |-> FALSE, error |-> "header_length", n |-> n]

\* The header loop that takes the terminator wherever it first ends.
header_scan_anywhere(bits) ==
    LET num_header_bits == 16 + 16 + HEADER_TERMINATOR_LEN
        stops == { n \in num_header_bits..Len(bits) :
                     \/ EndsWithTerminator(bits, n)
                     \/ n > num_header_bits + HEADER_SEARCH_TOLERANCE }
    IN  IF stops = {}
        THEN [found |-> FALSE, error |-> "header_not_found", n |-> Len(bits)]
        ELSE LET n == CHOOSE m \in stops : \A k \in stops : m <= k
             IN  IF EndsWithTerminator(bits, n)
                 THEN [found |-> TRUE, error |-> "", n |-> n]
                 ELSE [found |-> FALSE, error |-> "terminator_not_found", n |-> n]

\* Phase 1: the header loop.  It acts for the first time once 40 bits are
\* read, and stops at the first count n at which the last 8 bits are the
\* terminator or more than 40 + 500 bits were read.  n is pixels_processed
\* when the loop is left.
header_scan(bits) ==
    LET num_header_bits == 16 + 16 + HEADER_TERMINATOR_LEN
        stops == { n \in num_header_bits..Len(bits) :
                     \/ EndsWithTerminator(bits, n)
                     \/ n > num_header_bits + HEADER_SEARCH_TOLERANCE }
    IN  IF stops = {}
        THEN [found |-> FALSE, error |-> "header_not_found", n |-> Len(bits)]
        ELSE LET n == CHOOSE m \in stops : \A k \in stops : m <= k
             IN  IF EndsWithTerminator(bits, n)
                 THEN IF n - HEADER_TERMINATOR_LEN = 32
                      THEN [found |-> TRUE, error |-> "", n |-> n]
                      ELSE [found |-> FALSE, error |-> "header_length", n |-> n]
                 ELSE [found |-> FALSE, error |-> "terminator_not_found", n |-> n]

extract_qr_from_image(stego_img) ==
    IF stego_img = NoImage
    THEN ExtractRaised("FileNotFoundError", "stego_not_found")
    ELSE
    LET bits == lsb_stream(stego_img)
        scan == header_scan(bits)
        qr_width == binary_to_int(SubSeq(bits, 1, 16))
        qr_height == binary_to_int(SubSeq(bits, 17, 32))
        num_qr_bits_expected == qr_width * qr_height
        start_pixel_index == scan.n
        remaining == Len(bits) - start_pixel_index
        bits_extracted_count ==
            IF remaining < num_qr_bits_expected THEN remaining
            ELSE num_qr_bits_expected
        qr_bits == SubSeq(bits, start_pixel_index + 1,
                          start_pixel_index + bits_extracted_count)
    IN  IF ~scan.found
        THEN [ExtractRaised("ValueError", scan.error)
                 EXCEPT !.pixels_processed = scan.n]
        ELSE IF bits_extracted_count < num_qr_bits_expected
        THEN [ExtractRaised("ValueError", "insufficient_data")
                 EXCEPT !.qr_width = qr_width, !.qr_height = qr_height,
                        !.pixels_processed = start_pixel_index]
        ELSE [outcome |-> "returned", error |-> "",
              qr_width |-> qr_width, qr_height |-> qr_height,
              pixels_processed |-> start_pixel_index,
              image |-> [width |-> qr_width, height |-> qr_height,
                         px |-> [i \in 1..num_qr_bits_expected |->
                                    IF qr_bits[i] = 1 THEN 0 ELSE 255]]]

\* What a call can do.  A header that decodes to a zero width or height
\* leads to Image.new('1', (w, h)) with an empty size and to its save as
\* PNG; whether the imaging library writes such a file or raises is left
\* open, and both are outcomes.
extract_outcomes(stego_img) ==
    LET r == extract_qr_from_image(stego_img)
    IN  IF r.outcome = "returned" /\ r.qr_width * r.qr_height = 0
        THEN {r, [ExtractRaised("ValueError", "save_failed")
                     EXCEPT !.qr_width = r.qr_width, !.qr_height = r.qr_height,
                            !.pixels_processed = r.pixels_processed],
                 [ExtractRaised("Exception", "save_failed")
                     EXCEPT !.qr_width = r.qr_width, !.qr_height = r.qr_height,
                            !.pixels_processed = r.pixels_processed]}
        ELSE {r}

---------------------------------------------------------------------------
(* analyze_image_capacity: the integer fields of the analysis.  The        *)
(* floating-point scores (efficiency, brightness, contrast, utilisation)   *)
(* and the 70% recommendation derived from them are not carried.           *)

CapacityRaised(kind) ==
    [outcome |-> kind, total_pixels |-> 0, usable_capacity |-> 0,
     header_bits |-> 0, available_for_qr |-> 0, max_qr_size |-> 0]

NoCapacity == CapacityRaised("none")

\* The analysis with the header left out of the subtraction.
analyze_image_capacity_no_header(img) ==
    LET total_pixels == img.width * img.height
    IN  [outcome |-> "returned", total_pixels |-> total_pixels,
         usable_capacity |-> total_pixels,
         header_bits |-> 16 + 16 + HEADER_TERMINATOR_LEN,
         available_for_qr |-> total_pixels,
         max_qr_size |-> ISqrt(total_pixels)]

\* math.sqrt of a negative number raises ValueError("math domain error"),
\* which the handler logs and re-raises: a cover of fewer than 40 pixels
\* gets no analysis.
analyze_image_capacity(img) ==
    LET total_pixels == img.width * img.height
        usable_capacity == total_pixels
        header_bits == 16 + 16 + HEADER_TERMINATOR_LEN
        available_for_qr == usable_capacity - header_bits
        max_qr_pixels == available_for_qr
    IN  IF img = NoImage THEN CapacityRaised("FileNotFoundError")
        ELSE IF max_qr_pixels < 0 THEN CapacityRaised("ValueError")
        ELSE [outcome |-> "returned", total_pixels |-> total_pixels,
              usable_capacity |-> usable_capacity,
              header_bits |-> header_bits,
              available_for_qr |-> available_for_qr,
              max_qr_size |-> ISqrt(max_qr_pixels)]

\* check_qr_compatibility, lines 594-724: the two flags and the size it
\* recommends (0 when it recommends none).  An analysis that raises makes
\* the check raise the same.
CompatibilityRaised(kind) ==
    [outcome |-> kind, compatible |-> FALSE, resize_required |-> FALSE,
     total_bits_needed |-> 0, available_capacity |-> 0, new_dimension |-> 0]

NoCompatibility == CompatibilityRaised("none")

check_qr_compatibility(cover_img, qr_img) ==
    LET capacity_analysis == analyze_image_capacity(cover_img)
        qr_pixels == qr_img.width * qr_img.height
        header_bits == 16 + 16 + HEADER_TERMINATOR_LEN
        total_bits_needed == header_bits + qr_pixels
        available_capacity == capacity_analysis.available_for_qr
        compatible == total_bits_needed <= capacity_analysis.usable_capacity
        resize_required == total_bits_needed > available_capacity
    IN  IF cover_img = NoImage \/ qr_img = NoImage
        THEN CompatibilityRaised("FileNotFoundError")
        ELSE IF capacity_analysis.outcome /= "returned"
        THEN CompatibilityRaised(capacity_analysis.outcome)
        ELSE [outcome |-> "returned", compatible |-> compatible,
              resize_required |-> resize_required,
              total_bits_needed |-> total_bits_needed,
              available_capacity |-> available_capacity,
              new_dimension |-> IF resize_required THEN ISqrt(available_capacity)
                                ELSE 0]

---------------------------------------------------------------------------
(* Images that reach extract without having been written by embed: plain   *)
(* pictures, cropped stego images, images with a damaged header.  They are *)
(* given by the bits their blue samples carry.                             *)

MaxOverrun == 4
ShortPixels == 8

Rep(b, n) == [i \in 1..n |-> b]

\* Header dimensions a foreign image may carry; 65535 is the largest value
\* of a 16-bit field.
ForeignDims == {<<0, 0>>, <<0, 3>>, <<1, 1>>, <<2, 2>>, <<2, 3>>, <<3, 2>>,
                <<65535, 1>>, <<65535, 32767>>}

\* Lengths around the end of the search window, 40 + 500 samples.
WindowLengths == { 40 + HEADER_SEARCH_TOLERANCE + k : k \in 0..MaxOverrun }

ForeignStreams ==
    { Rep(1, n) : n \in {ShortPixels, 40, MaxCoverPixels} \cup WindowLengths }
    \cup { SubSeq(header_bits_of(2, 2), 1, 32) \o Rep(1, j) \o Rep(0, 8)
              \o Rep(1, 3) :
              j \in {1, 8} \cup { HEADER_SEARCH_TOLERANCE + k : k \in 0..2 } }
    \cup { header_bits_of(d[1], d[2]) \o [i \in 1..k |-> i % 2] :
              d \in ForeignDims, k \in 0..(MaxCoverPixels - 40) }

\* One row, and two rows when the length allows.
StreamImages(bits) ==
    { [width |-> Len(bits) \div h, height |-> h,
       px |-> [i \in 1..Len(bits) |-> <<i % 256, 0, 200 + bits[i]>>]] :
         h \in { k \in 1..2 : Len(bits) % k = 0 } }

ForeignImages == UNION { StreamImages(b) : b \in ForeignStreams }

---------------------------------------------------------------------------
(* The steganography state machine: one output path, written by embed and  *)
(* read by extract.                                                        *)

NoEmbed == EmbedRaised("")
NoExtract == ExtractRaised("", "")

InitStego ==
    /\ pc = "start"
    /\ cover = NoImage
    /\ qr = NoImage
    /\ resize_flag = FALSE
    /\ embedded = NoEmbed
    /\ outFile = NoImage
    /\ extracted = NoExtract
    /\ capacity = NoCapacity
    /\ compatibility = NoCompatibility

\* embed_qr_to_image(cover_image_path, qr_image_path, output_stego_path, flag)
Embed ==
    /\ pc = "start"
    /\ \E c \in Covers, q \in QrImages, f \in BOOLEAN :
          LET r == embed_qr_to_image(c, q, f)
          IN  /\ cover' = c
              /\ qr' = q
              /\ resize_flag' = f
              /\ embedded' = r
              /\ outFile' = IF r.outcome = "returned" /\ r.saved
                            THEN r.stego_img ELSE outFile
    /\ pc' = "embedded"
    /\ UNCHANGED <<extracted, capacity, compatibility, tokenVars, envVars, keyVars, storeVars, migVars, flowVars, frameVars>>

\* extract_qr_from_image(output_stego_path, output_qr_path)
Extract ==
    /\ pc = "embedded"
    /\ extracted' \in extract_outcomes(outFile)
    /\ pc' = "extracted"
    /\ UNCHANGED <<cover, qr, resize_flag, embedded, outFile, capacity, compatibility, tokenVars, envVars, keyVars, storeVars, migVars, flowVars, frameVars>>

\* extract_qr_from_image(stego_image_path, output_qr_path) on an image that
\* this run's embed did not write.
ExtractForeign ==
    /\ pc = "start"
    /\ \E img \in ForeignImages :
          /\ outFile' = img
          /\ extracted' \in extract_outcomes(img)
    /\ pc' = "extracted"
    /\ UNCHANGED <<cover, qr, resize_flag, embedded, capacity, compatibility, tokenVars, envVars, keyVars, storeVars, migVars, flowVars, frameVars>>

\* analyze_image_capacity(cover_image_path)
AnalyzeCapacity ==
    /\ pc = "embedded"
    /\ capacity = NoCapacity
    /\ capacity' = analyze_image_capacity(cover)
    /\ UNCHANGED <<pc, cover, qr, resize_flag, embedded, outFile, extracted, compatibility, tokenVars, envVars, keyVars, storeVars, migVars, flowVars, frameVars>>

\* check_qr_compatibility(cover_image_path, qr_image_path)
CheckCompatibility ==
    /\ pc = "embedded"
    /\ compatibility = NoCompatibility
    /\ compatibility' = check_qr_compatibility(cover, qr)
    /\ UNCHANGED <<pc, cover, qr, resize_flag, embedded, outFile, extracted, capacity, tokenVars, envVars, keyVars, storeVars, migVars, flowVars, frameVars>>

\* A new run in a fresh output directory.
ResetStego ==
    /\ pc = "extracted"
    /\ pc' = "start"
    /\ cover' = NoImage
    /\ qr' = NoImage
    /\ resize_flag' = FALSE
    /\ embedded' = NoEmbed
    /\ outFile' = NoImage
    /\ extracted' = NoExtract
    /\ capacity' = NoCapacity
    /\ compatibility' = NoCompatibility
    /\ UNCHANGED <<tokenVars, envVars, keyVars, storeVars, migVars, flowVars, frameVars>>

NextStego ==
    \/ Embed \/ AnalyzeCapacity \/ CheckCompatibility
    \/ Extract \/ ExtractForeign \/ ResetStego

---------------------------------------------------------------------------
(* Document binding: hashes and MACs are symbolic terms.  sha256(x) is the *)
(* term over x, an HMAC is the term over key and message, and two terms    *)
(* are equal only when built from equal parts (no collisions).  A          *)
(* signature also carries the set of its bit positions that were flipped   *)
(* after it was computed.                                                  *)

HMAC_DIGEST_LENGTH == 32
SECONDS_PER_HOUR == 3600
QR_BINDING_VERSION == "2.0"

MaxHours == 1
MaxFingerprints == 2

\* The clock is observed around the whole hours, where tokens expire.
ClockOffsets == {-1, 0, 1, 2}
Instants ==
    { k * SECONDS_PER_HOUR + o : k \in 0..MaxHours, o \in ClockOffsets } \cap Nat

\* How far the clock may move between two reads inside one call.
ClockSteps == {0, 1}

Documents == {"a.docx", "b.docx"}
FileBytes(d) == IF d = "a.docx" THEN 11 ELSE 22
FileSize(d) == IF d = "a.docx" THEN 1 ELSE 2
FileMtime(d) == 0
QrData == {"x"}
ProcessKey == "process_key"
AttackerKey == "attacker_key"

sha256(x) == <<"sha256", x>>

hmac_new(key, msg) == [key |-> key, msg |-> msg, flipped |-> {}]

\* A comparison that leaves the last byte of the digests out.
compare_digest_truncated(a, b) ==
    /\ a.key = b.key
    /\ a.msg = b.msg
    /\ { i \in a.flipped : i < 8 * (HMAC_DIGEST_LENGTH - 1) }
          = { i \in b.flipped : i < 8 * (HMAC_DIGEST_LENGTH - 1) }

compare_digest(a, b) == a = b

\* The signature with bit i inverted.
FlipBit(sig, i) ==
    [sig EXCEPT !.flipped = (@ \ {i}) \cup ({i} \ @)]

\* The bit positions tampering is tried at: the first two and the last.
SigBitPositions == {0, 1, 8 * HMAC_DIGEST_LENGTH - 1}

NoFp == [document_id |-> 0]
NoToken == [shape |-> "none"]
NoIssue == [expiry_hours |-> -1]
NoResult == [time |-> -1]

\* generate_document_fingerprint, lines 117-138: the fingerprint without its
\* hash, then the hash over the canonical JSON of all of it.
fingerprint_fields(document_path, document_id, timestamp) ==
    [version |-> QR_BINDING_VERSION,
     document_id |-> document_id,
     timestamp |-> timestamp,
     file_info |-> [name |-> document_path,
                    size |-> FileSize(document_path),
                    extension |-> ".docx",
                    modified_time |-> FileMtime(document_path)],
     content_hash |-> sha256(FileBytes(document_path)),
     document_metadata |-> [type |-> ".docx", extraction_method |-> "docx"],
     security_level |-> "standard"]

fingerprint_hash_of(fields) == sha256(fields)

generate_document_fingerprint(document_path, document_id, timestamp) ==
    LET fingerprint == fingerprint_fields(document_path, document_id, timestamp)
    IN  [fields |-> fingerprint,
         document_id |-> document_id,
         content_hash |-> fingerprint.content_hash,
         fingerprint_hash |-> fingerprint_hash_of(fingerprint)]

\* generate_binding_token: time.time() is read twice, t_issued then t_expires.
binding_payload(document_fingerprint, qr_data, expiry_hours, t_issued, t_expires) ==
    [document_id |-> document_fingerprint.document_id,
     fingerprint_hash |-> document_fingerprint.fingerprint_hash,
     qr_data |-> qr_data,
     issued_at |-> t_issued,
     expires_at |-> t_expires + expiry_hours * SECONDS_PER_HOUR,
     version |-> QR_BINDING_VERSION]

generate_binding_token(key, document_fingerprint, qr_data, expiry_hours, t_issued, t_expires) ==
    LET payload == binding_payload(document_fingerprint, qr_data, expiry_hours,
                                   t_issued, t_expires)
    IN  [shape |-> "ok",
         fields |-> {"payload", "signature", "version"},
         payload |-> payload,
         signature |-> hmac_new(key, payload),
         version |-> QR_BINDING_VERSION]

---------------------------------------------------------------------------
(* verify_binding_token *)

VerifyReturn(valid, error) ==
    [raised |-> FALSE, exception |-> "", valid |-> valid, error |-> error,
     qr_data |-> "", issued_at |-> -1, expires_at |-> -1]

VerifyRaise(exception) ==
    [raised |-> TRUE, exception |-> exception, valid |-> FALSE, error |-> "",
     qr_data |-> "", issued_at |-> -1, expires_at |-> -1]

required_fields == <<"payload", "signature", "version">>

\* The first required field the decoded token lacks (0 when none).
first_missing(tok) ==
    IF \E i \in 1..Len(required_fields) : required_fields[i] \notin tok.fields
    THEN CHOOSE i \in 1..Len(required_fields) :
            /\ required_fields[i] \notin tok.fields
            /\ \A j \in 1..(i - 1) : required_fields[j] \in tok.fields
    ELSE 0

VerifyValid(tok) ==
    [raised |-> FALSE, exception |-> "", valid |-> TRUE, error |-> "",
     qr_data |-> tok.payload.qr_data,
     issued_at |-> tok.payload.issued_at,
     expires_at |-> tok.payload.expires_at]

\* The checks with the fingerprint comparison left out.
verify_checks_no_fingerprint(key, tok, document_fingerprint, current_time) ==
    IF ~compare_digest(tok.signature, hmac_new(key, tok.payload))
    THEN VerifyReturn(FALSE, "Invalid token signature")
    ELSE IF current_time > tok.payload.expires_at
    THEN VerifyReturn(FALSE, "Token expired")
    ELSE VerifyValid(tok)

\* The checks with the fingerprint compared before the expiry.
verify_checks_fingerprint_first(key, tok, document_fingerprint, current_time) ==
    IF ~compare_digest(tok.signature, hmac_new(key, tok.payload))
    THEN VerifyReturn(FALSE, "Invalid token signature")
    ELSE IF tok.payload.fingerprint_hash /= document_fingerprint.fingerprint_hash
    THEN VerifyReturn(FALSE, "Document fingerprint mismatch")
    ELSE IF current_time > tok.payload.expires_at
    THEN VerifyReturn(FALSE, "Token expired")
    ELSE VerifyValid(tok)

\* The checks of lines 308-348 on a decoded, complete token.
verify_checks(key, tok, document_fingerprint, current_time) ==
    LET expected_signature == hmac_new(key, tok.payload)
    IN  IF ~compare_digest(tok.signature, expected_signature)
        THEN VerifyReturn(FALSE, "Invalid token signature")
        ELSE IF current_time > tok.payload.expires_at
        THEN VerifyReturn(FALSE, "Token expired")
        ELSE IF tok.payload.fingerprint_hash /= document_fingerprint.fingerprint_hash
        THEN VerifyReturn(FALSE, "Document fingerprint mismatch")
        ELSE VerifyValid(tok)

\* The body of the try block, lines 293-348: what it returns, or the
\* exception that leaves it.
verify_try(key, tok, document_fingerprint, current_time) ==
    IF tok.shape = "bad_base64" THEN VerifyRaise("binascii.Error")
    ELSE IF tok.shape = "not_json" THEN VerifyRaise("JSONDecodeError")
    ELSE IF first_missing(tok) /= 0
    THEN VerifyReturn(FALSE, "Missing token field: "
                                 \o required_fields[first_missing(tok)])
    ELSE verify_checks(key, tok, document_fingerprint, current_time)

\* verify with its failures raised, as the other methods of the class do.
verify_binding_token_raising(key, tok, document_fingerprint, current_time) ==
    LET r == verify_try(key, tok, document_fingerprint, current_time)
    IN  IF r.raised \/ ~r.valid THEN VerifyRaise("DocumentSecurityError") ELSE r

\* verify without its two except clauses.
verify_binding_token_no_handlers(key, tok, document_fingerprint, current_time) ==
    verify_try(key, tok, document_fingerprint, current_time)

\* Lines 350-354: both handlers turn the exception into a result.
verify_binding_token(key, tok, document_fingerprint, current_time) ==
    LET r == verify_try(key, tok, document_fingerprint, current_time)
    IN  IF ~r.raised THEN r
        ELSE IF r.exception = "JSONDecodeError"
        THEN VerifyReturn(FALSE, "Invalid token format")
        ELSE VerifyReturn(FALSE, "Verification failed")

---------------------------------------------------------------------------
(* What may reach verify in place of the token that was issued.            *)

Malformed(shape) ==
    [shape |-> shape, fields |-> {}, payload |-> <<>>, signature |-> <<>>,
     version |-> ""]

Presentable(tok, current_fp) ==
    {tok}
    \cup { [tok EXCEPT !.signature = FlipBit(@, i)] : i \in SigBitPositions }
    \cup { [tok EXCEPT !.payload.expires_at = @ + SECONDS_PER_HOUR],
           [tok EXCEPT !.payload.fingerprint_hash = current_fp.fingerprint_hash] }
    \cup { [tok EXCEPT !.payload.expires_at = @ + SECONDS_PER_HOUR,
                       !.signature = hmac_new(AttackerKey,
                           [tok.payload EXCEPT !.expires_at = @ + SECONDS_PER_HOUR])],
           [tok EXCEPT !.signature = hmac_new(AttackerKey, tok.payload)] }
    \cup { [tok EXCEPT !.fields = @ \ {f}] : f \in tok.fields }
    \cup { [tok EXCEPT !.fields = {"version"}] }
    \cup { Malformed("bad_base64"), Malformed("not_json") }

---------------------------------------------------------------------------
(* The binding state machine *)

InitToken ==
    /\ now = 0
    /\ secret_key = ProcessKey
    /\ nextUuid = 1
    /\ fp = NoFp
    /\ token = NoToken
    /\ issued = NoIssue
    /\ result = NoResult

\* time passes between calls
Tick ==
    /\ result = NoResult
    /\ \E t \in Instants : t > now /\ now' = t
    /\ UNCHANGED <<secret_key, nextUuid, fp, token, issued, result, stegoVars, envVars, keyVars, storeVars, migVars, flowVars, frameVars>>

\* binder.generate_document_fingerprint(document_path)
Fingerprint ==
    /\ result = NoResult
    /\ nextUuid <= MaxFingerprints
    /\ \E d \in Documents :
          fp' = generate_document_fingerprint(d, nextUuid, now)
    /\ nextUuid' = nextUuid + 1
    /\ UNCHANGED <<now, secret_key, token, issued, result, stegoVars, envVars, keyVars, storeVars, migVars, flowVars, frameVars>>

\* binder.generate_binding_token(fp, qr_data, expiry_hours)
Issue ==
    /\ result = NoResult
    /\ fp /= NoFp
    /\ issued = NoIssue
    /\ \E data \in QrData, h \in 0..MaxHours, step \in ClockSteps :
          /\ now + step \in Instants
          /\ token' = generate_binding_token(secret_key, fp, data, h,
                                             now, now + step)
          /\ issued' = [expiry_hours |-> h, qr_data |-> data, fp |-> fp,
                        token |-> token', called_at |-> now]
          /\ now' = now + step
    /\ UNCHANGED <<secret_key, nextUuid, fp, result, stegoVars, envVars, keyVars, storeVars, migVars, flowVars, frameVars>>

\* binder.verify_binding_token(presented, fp)
Verify ==
    /\ result = NoResult
    /\ token /= NoToken
    /\ fp /= NoFp
    /\ \E tk \in Presentable(token, fp) :
          result' = [time |-> now, token |-> tk, fp |-> fp,
                     ret |-> verify_binding_token(secret_key, tk, fp, now)]
    /\ UNCHANGED <<now, secret_key, nextUuid, fp, token, issued, stegoVars, envVars, keyVars, storeVars, migVars, flowVars, frameVars>>

\* a new run
ResetToken ==
    /\ result /= NoResult
    /\ now' = 0
    /\ nextUuid' = 1
    /\ fp' = NoFp
    /\ token' = NoToken
    /\ issued' = NoIssue
    /\ result' = NoResult
    /\ UNCHANGED <<secret_key, stegoVars, envVars, keyVars, storeVars, migVars, flowVars, frameVars>>

NextToken == Tick \/ Fingerprint \/ Issue \/ Verify \/ ResetToken

---------------------------------------------------------------------------
(* The secure envelope.  Python values are records tagged by kind.  A str  *)
(* is either "text": characters that are not a JSON document, given by a   *)
(* base text and the length of the prefix taken of it; or "json": the      *)
(* compact serialisation of a value.  Texts hold no character that JSON    *)
(* escapes.                                                                *)

Str(base, len) == [kind |-> "text", base |-> base, len |-> len]
JsonText(v) == [kind |-> "json", value |-> v]
PyInt(n) == [kind |-> "int", n |-> n]
PyNone == [kind |-> "none"]
\* A JSON array; deep when it is nested beyond the interpreter's recursion
\* limit.
PyList(deep) == [kind |-> "list", deep |-> deep]
PyDict(items) == [kind |-> "dict", items |-> items]

\* d.get(key, default)
dict_get(d, key, default) ==
    IF key \in DOMAIN d.items THEN d.items[key] ELSE default

\* s[:n]
str_prefix(s, n) == IF s.len <= n THEN s ELSE Str(s.base, n)

\* json.dumps(value, separators=(',', ':'))
json_dumps(value) == JsonText(value)

\* json.loads(s): the value, or the exception raised.
json_loads(s) ==
    IF s.kind = "text"
    THEN [raised |-> "JSONDecodeError", value |-> PyNone]
    ELSE IF s.value.kind = "list" /\ s.value.deep
    THEN [raised |-> "RecursionError", value |-> PyNone]
    ELSE [raised |-> "", value |-> s.value]

\* create_secure_qr_data(original_data, binding_token) at time t.
create_secure_qr_data(original_data, binding_token, t) ==
    json_dumps(PyDict([version |-> Str(QR_BINDING_VERSION, 3),
                       type |-> Str("secure", 6),
                       data |-> original_data,
                       binding |-> binding_token,
                       created_at |-> PyInt(t)]))

ParseRaised == [outcome |-> "DocumentSecurityError"]

LegacyResult(qr_data) ==
    [outcome |-> "returned", is_secure |-> FALSE, original_data |-> qr_data,
     binding_token |-> PyNone, version |-> PyNone, created_at |-> PyNone,
     is_uuid_based |-> FALSE]

\* The parse whose secure branch reads the token under the key "token".
parse_secure_qr_data_token_key(qr_data) ==
    LET loaded == json_loads(qr_data)
        data == loaded.value
    IN  IF loaded.raised = "JSONDecodeError" THEN LegacyResult(qr_data)
        ELSE IF loaded.raised /= "" THEN ParseRaised
        ELSE IF data.kind = "dict"
                /\ dict_get(data, "type", PyNone) = Str("secure", 6)
        THEN [outcome |-> "returned", is_secure |-> TRUE,
              original_data |-> dict_get(data, "data", PyNone),
              binding_token |-> dict_get(data, "token", PyNone),
              version |-> dict_get(data, "version", Str("1.0", 3)),
              created_at |-> dict_get(data, "created_at", PyNone),
              is_uuid_based |->
                  dict_get(data, "version", Str("1.0", 3)) = Str("2.0", 3)]
        ELSE LegacyResult(qr_data)

\* Only json.JSONDecodeError is passed over; any other exception of
\* json.loads reaches the outer handler and becomes DocumentSecurityError.
parse_secure_qr_data(qr_data) ==
    LET loaded == json_loads(qr_data)
        data == loaded.value
        version == dict_get(data, "version", Str("1.0", 3))
    IN  IF loaded.raised = "JSONDecodeError" THEN LegacyResult(qr_data)
        ELSE IF loaded.raised /= "" THEN ParseRaised
        ELSE IF data.kind = "dict"
                /\ dict_get(data, "type", PyNone) = Str("secure", 6)
        THEN [outcome |-> "returned", is_secure |-> TRUE,
              original_data |-> dict_get(data, "data", PyNone),
              binding_token |-> dict_get(data, "binding", PyNone),
              version |-> version,
              created_at |-> dict_get(data, "created_at", PyNone),
              is_uuid_based |-> version = Str("2.0", 3)]
        ELSE LegacyResult(qr_data)

\* len(s) of a str, and of the compact serialisation of a value.  An
\* object counts its braces, and per item the quoted key, the colon and the
\* value, with commas between.
KeyLen ==
    [version |-> 7, type |-> 4, data |-> 4, binding |-> 7, created_at |-> 10,
     v |-> 1, t |-> 1, d |-> 1, b |-> 1]

RECURSIVE Digits(_)
Digits(n) == IF n < 10 THEN 1 ELSE 1 + Digits(n \div 10)

RECURSIVE SumOver(_, _)
SumOver(f, S) ==
    IF S = {} THEN 0
    ELSE LET k == CHOOSE x \in S : TRUE IN f[k] + SumOver(f, S \ {k})

ScalarLen(v) ==
    CASE v.kind = "text" -> v.len + 2
      [] v.kind = "int" -> Digits(v.n)
      [] v.kind = "none" -> 4

Length(s) ==
    IF s.kind = "text" THEN s.len
    ELSE LET keys == DOMAIN s.value.items
             item == [k \in keys |-> KeyLen[k] + 2 + 1 + ScalarLen(s.value.items[k])]
         IN  2 + SumOver(item, keys) + (Cardinality(keys) - 1)

\* QR_CAPACITY_BYTE: characters per version 1..10 and error-correction level.
QR_CAPACITY_BYTE ==
    << [L |-> 17, M |-> 14, Q |-> 11, H |-> 7],
       [L |-> 32, M |-> 26, Q |-> 20, H |-> 14],
       [L |-> 53, M |-> 42, Q |-> 32, H |-> 24],
       [L |-> 78, M |-> 62, Q |-> 46, H |-> 34],
       [L |-> 106, M |-> 84, Q |-> 60, H |-> 44],
       [L |-> 134, M |-> 106, Q |-> 74, H |-> 58],
       [L |-> 154, M |-> 122, Q |-> 86, H |-> 64],
       [L |-> 192, M |-> 152, Q |-> 108, H |-> 84],
       [L |-> 230, M |-> 180, Q |-> 130, H |-> 98],
       [L |-> 271, M |-> 213, Q |-> 151, H |-> 119] >>

\* _find_minimum_version over versions 1..10; 0 stands for None.
find_minimum_version(data_length, error_correction) ==
    LET fitting == { version \in 1..10 :
                       QR_CAPACITY_BYTE[version][error_correction] >= data_length }
    IN  IF fitting = {} THEN 0
        ELSE CHOOSE version \in fitting : \A w \in fitting : version <= w

version_analysis_of(data_length) ==
    [ec_level \in {"L", "M", "Q", "H"} |->
        LET min_version == find_minimum_version(data_length, ec_level)
            level_capacity == IF min_version = 0 THEN 0
                              ELSE QR_CAPACITY_BYTE[min_version][ec_level]
        IN  [minimum_version |-> min_version,
             capacity |-> level_capacity,
             recommended |->
                 min_version /= 0 /\ data_length * 100 <= 80 * level_capacity]]

\* _recommend_error_correction: the first recommended level in the order
\* M, Q, L, H; else the first level, in the order L, M, Q, H, of the lowest
\* minimum version; "" stands for None.
recommend_error_correction(version_analysis) ==
    LET order == <<"L", "M", "Q", "H">>
        having == { i \in 1..4 : version_analysis[order[i]].minimum_version /= 0 }
        best == CHOOSE i \in having : \A j \in having :
                    \/ version_analysis[order[i]].minimum_version
                          < version_analysis[order[j]].minimum_version
                    \/ /\ version_analysis[order[i]].minimum_version
                            = version_analysis[order[j]].minimum_version
                       /\ i <= j
    IN  IF version_analysis["M"].recommended THEN "M"
        ELSE IF version_analysis["Q"].recommended THEN "Q"
        ELSE IF version_analysis["L"].recommended THEN "L"
        ELSE IF version_analysis["H"].recommended THEN "H"
        ELSE IF having = {} THEN ""
        ELSE order[best]

\* The analysis that reports no version when no level fits.
analyze_qr_requirements_none_fits(data) ==
    LET data_length == Length(data)
        version_analysis == version_analysis_of(data_length)
        recommended_ec == recommend_error_correction(version_analysis)
    IN  IF data_length = 0
        THEN [error |-> TRUE, data_length |-> 0, recommended_version |-> 0,
              recommended_error_correction |-> ""]
        ELSE [error |-> FALSE, data_length |-> data_length,
              recommended_version |->
                  IF recommended_ec /= ""
                  THEN version_analysis[recommended_ec].minimum_version
                  ELSE 0,
              recommended_error_correction |-> recommended_ec]

\* analyze_qr_requirements(data) for data in byte mode: the fields the
\* issue path reads.  Empty data raises inside and the error dict, which
\* has no recommended_version, is returned; with no level fitting,
\* recommended_version is 1.
analyze_qr_requirements(data) ==
    LET data_length == Length(data)
        version_analysis == version_analysis_of(data_length)
        recommended_ec == recommend_error_correction(version_analysis)
    IN  IF data_length = 0
        THEN [error |-> TRUE, data_length |-> 0, recommended_version |-> 0,
              recommended_error_correction |-> ""]
        ELSE [error |-> FALSE, data_length |-> data_length,
              recommended_version |->
                  IF recommended_ec /= ""
                  THEN version_analysis[recommended_ec].minimum_version
                  ELSE 1,
              recommended_error_correction |-> recommended_ec]

\* len(binding_token) of a token made by generate_binding_token for a
\* one-character qr_data and ten-digit timestamps.
BindingTokenLen == 532

\* generate_bound_qr from the envelope to the call of
\* generate_qr_with_analysis: what is handed to QR generation, or the raise.
generate_bound_qr(data, binding_token, t) ==
    LET secure_qr_data == create_secure_qr_data(data, binding_token, t)
        compact_secure_data ==
            json_dumps(PyDict([v |-> Str("1.0", 3), t |-> Str("s", 1), d |-> data,
                               b |-> str_prefix(binding_token, 100)]))
        base == [outcome |-> "qr_generation", data |-> data,
                 binding_token |-> binding_token,
                 full |-> secure_qr_data, compact |-> compact_secure_data,
                 secure_qr_data |-> secure_qr_data]
    IN  IF analyze_qr_requirements(secure_qr_data).recommended_version = 0
        THEN IF analyze_qr_requirements(compact_secure_data).recommended_version /= 0
             THEN [base EXCEPT !.secure_qr_data = compact_secure_data]
             ELSE [base EXCEPT !.outcome = "DocumentSecurityError",
                               !.secure_qr_data = PyNone]
        ELSE base

\* validate_qr_document_binding, lines 536-549, through
\* quick_binding_verification, document_security.py lines 512-520: whether
\* the answer is valid = true, is_legacy = true.  A parse that raises gives
\* valid = false.
valid_as_legacy(qr_data) ==
    LET qr_info == parse_secure_qr_data(qr_data)
    IN  qr_info.outcome = "returned" /\ ~qr_info.is_secure

NoText == [origin |-> "none"]
NoParse == [outcome |-> "none"]
NoBound == [outcome |-> "none"]

\* int(time.time()) at the moment of wrapping
EnvelopeTimes == {1700000000, 1700003600, 1700086400}

DataLengths == {1, 50, 138, 139, 200}

Tokens == {Str("token-a", BindingTokenLen), Str("token-b", BindingTokenLen)}

PlainData == { Str("data", n) : n \in DataLengths }

\* Data that itself reads as JSON.
JsonLookingData ==
    { JsonText(PyInt(123)),
      JsonText(PyDict([type |-> Str("secure", 6), data |-> Str("inner", 5)])) }

\* What a scanner may hand to parse_secure_qr_data.
ScannedTexts ==
    { Str("", 0), Str("plain text", 10) }
    \cup { JsonText(v) : v \in { PyInt(123), PyNone, Str("abc", 3),
                                 PyList(FALSE), PyList(TRUE) } }
    \cup { JsonText(PyDict(items)) : items \in
              { [data |-> Str("data", 1)],
                [type |-> Str("other", 5), data |-> Str("data", 1)],
                [type |-> PyInt(1)],
                [type |-> Str("secure", 6)],
                [type |-> Str("secure", 6), data |-> Str("data", 1),
                 binding |-> Str("token-a", BindingTokenLen)],
                [type |-> Str("secure", 6), data |-> Str("data", 1),
                 binding |-> Str("token-a", BindingTokenLen),
                 version |-> Str("1.0", 3)] } }

InitEnvelope ==
    /\ qrText = NoText
    /\ parsed = NoParse
    /\ bound = NoBound

\* binder.create_secure_qr_data(data, binding_token)
Wrap ==
    /\ qrText = NoText
    /\ bound = NoBound
    /\ \E data \in PlainData \cup JsonLookingData, tk \in Tokens,
          t \in EnvelopeTimes :
          qrText' = [origin |-> "wrap", data |-> data, binding_token |-> tk,
                     text |-> create_secure_qr_data(data, tk, t)]
    /\ UNCHANGED <<parsed, bound, stegoVars, tokenVars, keyVars, storeVars, migVars, flowVars, frameVars>>

\* a QR text read from an image
Scan ==
    /\ qrText = NoText
    /\ bound = NoBound
    /\ \E text \in ScannedTexts :
          qrText' = [origin |-> "scan", data |-> PyNone,
                     binding_token |-> PyNone, text |-> text]
    /\ UNCHANGED <<parsed, bound, stegoVars, tokenVars, keyVars, storeVars, migVars, flowVars, frameVars>>

\* binder.parse_secure_qr_data(qr_data)
Parse ==
    /\ qrText /= NoText
    /\ parsed = NoParse
    /\ parsed' = parse_secure_qr_data(qrText.text)
    /\ UNCHANGED <<qrText, bound, stegoVars, tokenVars, keyVars, storeVars, migVars, flowVars, frameVars>>

\* SecureQRGenerator.generate_bound_qr(data, document_path, output_path)
BindQr ==
    /\ qrText = NoText
    /\ bound = NoBound
    /\ \E data \in PlainData, tk \in Tokens, t \in EnvelopeTimes :
          bound' = generate_bound_qr(data, tk, t)
    /\ UNCHANGED <<qrText, parsed, stegoVars, tokenVars, keyVars, storeVars, migVars, flowVars, frameVars>>

\* the QR image generate_bound_qr wrote is read back by read_qr
ScanIssued ==
    /\ qrText = NoText
    /\ bound /= NoBound
    /\ bound.outcome = "qr_generation"
    /\ qrText' = [origin |-> "issued", data |-> bound.data,
                  binding_token |-> bound.binding_token,
                  text |-> bound.secure_qr_data]
    /\ UNCHANGED <<parsed, bound, stegoVars, tokenVars, keyVars, storeVars, migVars, flowVars, frameVars>>

ResetEnvelope ==
    /\ parsed /= NoParse \/ bound /= NoBound
    /\ qrText' = NoText
    /\ parsed' = NoParse
    /\ bound' = NoBound
    /\ UNCHANGED <<stegoVars, tokenVars, keyVars, storeVars, migVars, flowVars, frameVars>>

NextEnvelope == Wrap \/ Scan \/ Parse \/ BindQr \/ ScanIssued \/ ResetEnvelope

---------------------------------------------------------------------------
(* The key file *)

(* DocumentBinder.__init__ runs _load_or_generate_key against one key file. *)
(* Several binders may be under construction at once (one per request      *)
(* thread or worker process); each step below is one file-system call or   *)
(* one statement of the method.  secrets.token_bytes returns a fresh key,  *)
(* named by its number.                                                    *)

HMAC_KEY_LENGTH == 32

MaxBinders == 2
MaxKeys == 3

Binders == 1..MaxBinders

\* The key file: absent, or its length and the key it holds.
NoKey == [len |-> -1, key |-> 0]
EmptyKeyFile == [len |-> 0, key |-> 0]
KeyFileOf(key) == [len |-> HMAC_KEY_LENGTH, key |-> key]

InitKey ==
    /\ keyFile = NoKey
    /\ binder = [b \in Binders |-> [pc |-> "init", key |-> 0]]
    /\ keysMade = 0

\* if os.path.exists(self.key_file_path):
KeyExists(b) ==
    /\ binder[b].pc = "init"
    /\ binder' = [binder EXCEPT ![b].pc =
                      IF keyFile /= NoKey THEN "read" ELSE "generate"]
    /\ UNCHANGED <<keyFile, keysMade, stegoVars, tokenVars, envVars, storeVars, migVars, flowVars, frameVars>>

\* with open(path, 'rb') as f: key = f.read(); if len(key) == 32: return key
KeyRead(b) ==
    /\ binder[b].pc = "read"
    /\ binder' = [binder EXCEPT ![b] =
                      IF keyFile.len = HMAC_KEY_LENGTH
                      THEN [pc |-> "done", key |-> keyFile.key]
                      ELSE [pc |-> "generate", key |-> 0]]
    /\ UNCHANGED <<keyFile, keysMade, stegoVars, tokenVars, envVars, storeVars, migVars, flowVars, frameVars>>

\* key = secrets.token_bytes(HMAC_KEY_LENGTH)
KeyGenerate(b) ==
    /\ binder[b].pc = "generate"
    /\ keysMade < MaxKeys
    /\ keysMade' = keysMade + 1
    /\ binder' = [binder EXCEPT ![b] = [pc |-> "open", key |-> keysMade + 1]]
    /\ UNCHANGED <<keyFile, stegoVars, tokenVars, envVars, storeVars, migVars, flowVars, frameVars>>

\* open(path, 'wb'): the file is created or truncated
KeyOpen(b) ==
    /\ binder[b].pc = "open"
    /\ keyFile' = EmptyKeyFile
    /\ binder' = [binder EXCEPT ![b].pc = "write"]
    /\ UNCHANGED <<keysMade, stegoVars, tokenVars, envVars, storeVars, migVars, flowVars, frameVars>>

\* f.write(key), flushed when the with block closes the file; return key
KeyWrite(b) ==
    /\ binder[b].pc = "write"
    /\ keyFile' = KeyFileOf(binder[b].key)
    /\ binder' = [binder EXCEPT ![b].pc = "done"]
    /\ UNCHANGED <<keysMade, stegoVars, tokenVars, envVars, storeVars, migVars, flowVars, frameVars>>

\* The binder is dropped and a new one is constructed (the next call of
\* quick_binding_verification, the next process start).
KeyRestart(b) ==
    /\ binder[b].pc = "done"
    /\ binder' = [binder EXCEPT ![b] = [pc |-> "init", key |-> 0]]
    /\ UNCHANGED <<keyFile, keysMade, stegoVars, tokenVars, envVars, storeVars, migVars, flowVars, frameVars>>

NextKey ==
    \E b \in Binders :
        \/ KeyExists(b)
        \/ KeyRead(b)
        \/ KeyGenerate(b)
        \/ KeyOpen(b)
        \/ KeyWrite(b)
        \/ KeyRestart(b)

---------------------------------------------------------------------------
(* The header frame.  embed_qr_to_image and the header phase of             *)
(* extract_qr_from_image followed through the payload's dimensions and the  *)
(* cover's pixel count alone, so that payloads as wide as the header's      *)
(* 16-bit fields, and wider, are covered.                                   *)

\* Payload widths and heights around the ends of a 16-bit field.
FrameWidths == {1, 2, 255, 256, 2 ^ 15, 2 ^ 16 - 1, 2 ^ 16, 2 ^ 16 + 1, 2 ^ 17 - 1}
FrameHeights == {1, 2, 3}

\* How far the cover's pixel count lies from 40 + w*h.
FrameMargins == {-1, 0, 1, 2}

NoFrame == [outcome |-> "none"]
NoRead == [found |-> FALSE, error |-> "none", n |-> 0]

FrameRaised(msg) ==
    [outcome |-> "ValueError", error |-> msg, resized |-> FALSE,
     qr_width |-> 0, qr_height |-> 0, header_bits |-> <<>>,
     total_bits_to_embed |-> 0, saved |-> FALSE]

\* embed_qr_to_image, lines 136-202, for a cover of max_capacity pixels and
\* a payload of w x h: the two capacity checks, the resize, the header, and
\* whether the loop reaches the save.
embed_frame(max_capacity, w, h, resize_qr_if_needed) ==
    LET header_bits_len == 16 + 16 + HEADER_TERMINATOR_LEN
        available_bits_for_qr == max_capacity - header_bits_len
        new_dimension == ISqrt(available_bits_for_qr)
        resized == header_bits_len + w * h > max_capacity
        dims == IF ~resized \/ (w <= new_dimension /\ h <= new_dimension)
                THEN <<w, h>> ELSE <<new_dimension, new_dimension>>
        header_bits == header_bits_of(dims[1], dims[2])
        total_bits_to_embed == Len(header_bits) + dims[1] * dims[2]
    IN  IF resized /\ ~resize_qr_if_needed THEN FrameRaised("capacity")
        ELSE IF resized /\ available_bits_for_qr <= 0
        THEN FrameRaised("header_capacity")
        ELSE IF total_bits_to_embed > max_capacity
        THEN FrameRaised("capacity_after_resize")
        ELSE [outcome |-> "returned", error |-> "", resized |-> resized,
              qr_width |-> dims[1], qr_height |-> dims[2],
              header_bits |-> header_bits,
              total_bits_to_embed |-> total_bits_to_embed,
              saved |-> total_bits_to_embed < max_capacity]

\* The header phase of extract_qr_from_image on a stream that begins with
\* these header bits (the scan stops, at the latest, on their last bit), and
\* the dimensions lines 273-274 decode from the first 32 bits.
read_frame(header_bits) ==
    LET scan == header_scan(header_bits)
    IN  [found |-> scan.found, error |-> scan.error, n |-> scan.n,
         qr_width |-> binary_to_int(SubSeq(header_bits, 1, 16)),
         qr_height |-> binary_to_int(SubSeq(header_bits, 17, 32))]

InitFrame == framed = NoFrame

\* embed_qr_to_image on a cover of 40 + w*h + margin pixels
Frame ==
    /\ framed = NoFrame
    /\ \E w \in FrameWidths, h \in FrameHeights, m \in FrameMargins, f \in BOOLEAN :
          framed' = embed_frame(40 + w * h + m, w, h, f)
                    @@ [max_capacity |-> 40 + w * h + m, w |-> w, h |-> h,
                        resize_qr_if_needed |-> f, read |-> NoRead]
    /\ UNCHANGED <<stegoVars, tokenVars, envVars, keyVars, storeVars, migVars, flowVars>>

\* extract_qr_from_image on the image that embedding saved
ReadFrame ==
    /\ framed /= NoFrame
    /\ framed.outcome = "returned"
    /\ framed.saved
    /\ framed.read = NoRead
    /\ framed' = [framed EXCEPT !.read = read_frame(framed.header_bits)]
    /\ UNCHANGED <<stegoVars, tokenVars, envVars, keyVars, storeVars, migVars, flowVars>>

\* fresh files
ResetFrame ==
    /\ framed /= NoFrame
    /\ framed' = NoFrame
    /\ UNCHANGED <<stegoVars, tokenVars, envVars, keyVars, storeVars, migVars, flowVars>>

NextFrame == Frame \/ ReadFrame \/ ResetFrame

---------------------------------------------------------------------------
(* Binding storage *)

\* The instants the storage clock takes: around the start and around one
\* hour later, so that a record of expiry_hours 1 is seen on both sides of
\* its expires_at.
StoreInstants == {0, 1, SECONDS_PER_HOUR, SECONDS_PER_HOUR + 1}

\* The 16-hex-digit id of a file left by the hash-keyed version of the store,
\* the one migration_utils.py migrates.
LegacyId == 0

\* The uuids str(uuid.uuid4()) hands out in one run of the storage machine.
StoreIds == {1, 2}

\* A file name of binding_storage/ without its ".json": prefix and id.
FileName(prefix, id) == [prefix |-> prefix, id |-> id]

StoreNames ==
    { FileName(p, i) : p \in {"", "prereg_"}, i \in StoreIds } \cup {FileName("", LegacyId)}

NoFile == [state |-> "absent"]
\* a name whose file was unlinked: absent, and its uuid is not handed out again
UnlinkedFile == [state |-> "absent", unlinked |-> TRUE]
\* what open(record_file, 'w') leaves before json.dump's text is flushed
EmptyFile == [state |-> "empty"]
CompleteFile(record) == [state |-> "complete", record |-> record]

\* The record generate_bound_qr builds, secure_qr_utils.py lines 104-113.
binding_record(fingerprint, data, binding_token, output_path, expiry_hours, t_created, t_expires) ==
    [document_fingerprint |-> fingerprint,
     qr_data |-> data,
     secure_qr_data |-> create_secure_qr_data(Str(data, 1),
                                              Str("binding_token", BindingTokenLen),
                                              t_created),
     binding_token |-> binding_token,
     qr_file_path |-> output_path,
     created_at |-> t_created,
     expires_at |-> t_expires + expiry_hours * SECONDS_PER_HOUR,
     qr_generation_info |-> [success |-> TRUE]]

\* The record pre_register_document builds, secure_qr_utils.py lines 208-216.
preregistration_record(fingerprint, qr_data, binding_token, expiry_hours, t_created, t_expires) ==
    [document_fingerprint |-> fingerprint,
     qr_data |-> qr_data,
     binding_token |-> binding_token,
     status |-> "pre_registered",
     created_at |-> t_created,
     expires_at |-> t_expires + expiry_hours * SECONDS_PER_HOUR,
     qr_generated |-> FALSE]

\* A record of the hash-keyed version: its fingerprint carries fingerprint_id
\* and version 1.0, and it has no expires_at.
LegacyRecord ==
    [document_fingerprint |-> [version |-> "1.0", fingerprint_id |-> LegacyId],
     qr_data |-> "x",
     binding_token |-> [shape |-> "legacy"],
     created_at |-> 0]

\* record.get("expires_at", 0)
expires_at_of(record) ==
    IF "expires_at" \in DOMAIN record THEN record.expires_at ELSE 0

\* record.get("document_fingerprint", {}).get(k) == document_id, for the two
\* keys the compatibility scan of load_binding_record compares.
fingerprint_matches(record, document_id) ==
    /\ document_id.prefix = ""
    /\ "document_fingerprint" \in DOMAIN record
    /\ \/ /\ "document_id" \in DOMAIN record.document_fingerprint
          /\ record.document_fingerprint.document_id = document_id.id
       \/ /\ "fingerprint_id" \in DOMAIN record.document_fingerprint
          /\ record.document_fingerprint.fingerprint_id = document_id.id

\* load_binding_record, document_security.py lines 446-472: every value the
\* call can return (the scan follows glob's order, which is not fixed).
\* json.load of a file that is not complete raises, and the call returns None.
load_binding_record(dir, document_id) ==
    IF dir[document_id].state /= "absent"
    THEN IF dir[document_id].state = "complete"
         THEN {dir[document_id].record}
         ELSE {PyNone}
    ELSE LET matches == { n \in StoreNames :
                            /\ dir[n].state = "complete"
                            /\ fingerprint_matches(dir[n].record, document_id) }
         IN  IF matches = {} THEN {PyNone} ELSE { dir[n].record : n \in matches }

\* The files cleanup_expired_records unlinks at current_time, lines 474-498:
\* those that load as JSON and whose expires_at is before current_time.
expired_files(dir, current_time) ==
    { n \in StoreNames :
        /\ dir[n].state = "complete"
        /\ expires_at_of(dir[n].record) < current_time }

\* The sweep that also removes a record expiring at this very second.
cleanup_expired_records_inclusive(dir, current_time) ==
    LET gone == { n \in StoreNames :
                    /\ dir[n].state = "complete"
                    /\ expires_at_of(dir[n].record) <= current_time }
    IN  [dir |-> [n \in StoreNames |-> IF n \in gone THEN UnlinkedFile ELSE dir[n]],
         cleaned_count |-> Cardinality(gone)]

cleanup_expired_records(dir, current_time) ==
    LET gone == expired_files(dir, current_time)
    IN  [dir |-> [n \in StoreNames |-> IF n \in gone THEN UnlinkedFile ELSE dir[n]],
         cleaned_count |-> Cardinality(gone)]

\* The document the storage machine registers and issues for.
StoreDocuments == {"a.docx"}

IdleSaver == [step |-> "idle"]
NoLoad == [key |-> FileName("none", LegacyId)]
NoSweep == [current_time |-> -1]

EmptyDir == [n \in StoreNames |-> NoFile]

\* A directory taken over from the hash-keyed version: one file of it.
UpgradedDir == [EmptyDir EXCEPT ![FileName("", LegacyId)] = CompleteFile(LegacyRecord)]

\* BindingStorage.__init__ on the directory it finds.
InitStoreOn(dir) ==
    /\ store = dir
    /\ storeClock = 0
    /\ saver = IdleSaver
    /\ lastLoad = NoLoad
    /\ swept = NoSweep

InitStore == InitStoreOn(EmptyDir)

\* The uuids not yet naming any file.
FreshIds ==
    { i \in StoreIds : \A p \in {"", "prereg_"} : store[FileName(p, i)] = NoFile }

\* save_binding_record up to open(record_file, 'w'), line 438: the file is
\* truncated; what it held before is remembered for the observer only.
SaveOpen(name, record) ==
    /\ saver' = [step |-> "open", key |-> name, record |-> record,
                 previous |-> store[name]]
    /\ store' = [store EXCEPT ![name] = EmptyFile]

\* A load or a sweep has returned and its caller is looking at the result.
Observing == lastLoad /= NoLoad \/ swept /= NoSweep

\* time passes between calls
StoreTick ==
    /\ ~Observing
    /\ saver.step /= "open"
    /\ \E t \in StoreInstants : t > storeClock /\ storeClock' = t
    /\ UNCHANGED <<store, saver, lastLoad, swept, stegoVars, tokenVars, envVars, keyVars, migVars, flowVars, frameVars>>

\* SecureQRGenerator.generate_bound_qr, to the opening of the record file.
\* The clock is read for the fingerprint and the token, and read again, after
\* the QR image is written, for the record's two times.
IssueRecord ==
    /\ ~Observing
    /\ saver.step /= "open"
    /\ FreshIds /= {}
    /\ \E d \in StoreDocuments, h \in 1..MaxHours, step \in ClockSteps :
          LET id == CHOOSE i \in FreshIds : \A j \in FreshIds : i <= j
              t2 == storeClock + step
              fingerprint == generate_document_fingerprint(d, id, storeClock)
              binding_token == generate_binding_token(ProcessKey, fingerprint, "x", h,
                                                      storeClock, storeClock)
          IN  /\ t2 \in StoreInstants
              /\ SaveOpen(FileName("", id),
                          binding_record(fingerprint, "x", binding_token, "qr.png",
                                         h, t2, t2))
              /\ storeClock' = t2
    /\ UNCHANGED <<lastLoad, swept, stegoVars, tokenVars, envVars, keyVars, migVars, flowVars, frameVars>>

\* SecureQRGenerator.pre_register_document, to the opening of the record file.
PreRegister ==
    /\ ~Observing
    /\ saver.step /= "open"
    /\ FreshIds /= {}
    /\ \E d \in StoreDocuments, h \in 1..MaxHours, step \in ClockSteps :
          LET id == CHOOSE i \in FreshIds : \A j \in FreshIds : i <= j
              t2 == storeClock + step
              fingerprint == generate_document_fingerprint(d, id, storeClock)
              binding_token == generate_binding_token(ProcessKey, fingerprint, "x", h,
                                                      storeClock, storeClock)
          IN  /\ t2 \in StoreInstants
              /\ SaveOpen(FileName("prereg_", id),
                          preregistration_record(fingerprint, "x", binding_token,
                                                 h, t2, t2))
              /\ storeClock' = t2
    /\ UNCHANGED <<lastLoad, swept, stegoVars, tokenVars, envVars, keyVars, migVars, flowVars, frameVars>>

\* save_binding_record(document_id, record) called for a key that already
\* has a record: the record is saved again with its expiry renewed.
SaveAgain ==
    /\ ~Observing
    /\ saver.step /= "open"
    /\ \E n \in StoreNames :
          /\ store[n].state = "complete"
          /\ "expires_at" \in DOMAIN store[n].record
          /\ storeClock + SECONDS_PER_HOUR > store[n].record.expires_at
          /\ SaveOpen(n, [store[n].record EXCEPT
                             !.expires_at = storeClock + SECONDS_PER_HOUR])
    /\ UNCHANGED <<storeClock, lastLoad, swept, stegoVars, tokenVars, envVars, keyVars, migVars, flowVars, frameVars>>

\* json.dump and the close of the with block, lines 438-441
SaveClose ==
    /\ ~Observing
    /\ saver.step = "open"
    /\ store' = [store EXCEPT ![saver.key] = CompleteFile(saver.record)]
    /\ saver' = IdleSaver
    /\ UNCHANGED <<storeClock, lastLoad, swept, stegoVars, tokenVars, envVars, keyVars, migVars, flowVars, frameVars>>

\* the process dies between the open and the close
Crash ==
    /\ ~Observing
    /\ saver.step = "open"
    /\ saver' = [saver EXCEPT !.step = "crashed"]
    /\ UNCHANGED <<store, storeClock, lastLoad, swept, stegoVars, tokenVars, envVars, keyVars, migVars, flowVars, frameVars>>

\* storage.load_binding_record(document_id), from any process
Load ==
    /\ ~Observing
    /\ \E n \in StoreNames :
          /\ n.id /= LegacyId \/ store[n].state /= "absent"
          /\ \E r \in load_binding_record(store, n) :
                lastLoad' = [key |-> n, returned |-> r, file |-> store[n],
                             saver |-> saver]
    /\ UNCHANGED <<store, storeClock, saver, swept, stegoVars, tokenVars, envVars, keyVars, migVars, flowVars, frameVars>>

\* storage.cleanup_expired_records(), from any process
Sweep ==
    /\ ~Observing
    /\ LET swept_dir == cleanup_expired_records(store, storeClock)
       IN  /\ swept' = [current_time |-> storeClock, before |-> store,
                        after |-> swept_dir.dir,
                        cleaned_count |-> swept_dir.cleaned_count]
           /\ store' = swept_dir.dir
    /\ UNCHANGED <<storeClock, saver, lastLoad, stegoVars, tokenVars, envVars, keyVars, migVars, flowVars, frameVars>>

\* the caller of the load or the sweep goes on
Resume ==
    /\ Observing
    /\ lastLoad' = NoLoad
    /\ swept' = NoSweep
    /\ UNCHANGED <<store, storeClock, saver, stegoVars, tokenVars, envVars, keyVars, migVars, flowVars, frameVars>>

NextStore ==
    \/ StoreTick \/ IssueRecord \/ PreRegister \/ SaveAgain
    \/ SaveClose \/ Crash \/ Load \/ Sweep \/ Resume

---------------------------------------------------------------------------
(* Migration *)

\* d[k] = v of a Python dict
Put(d, k, v) == [x \in DOMAIN d \cup {k} |-> IF x = k THEN v ELSE d[x]]

\* The uuids str(uuid.uuid4()) hands out in one run of the migration.
MigIds == {1, 2, 3}

MigNames == { FileName(p, i) : p \in {"", "prereg_"}, i \in {LegacyId} \cup MigIds }

MigHashes == {sha256("a"), sha256("b")}

\* The fingerprint of a hash-keyed record, and one of this version.
legacy_fingerprint(fingerprint_hash) ==
    [version |-> "1.0", fingerprint_id |-> LegacyId, fingerprint_hash |-> fingerprint_hash]

uuid_fingerprint(document_id, fingerprint_hash) ==
    [version |-> QR_BINDING_VERSION, document_id |-> document_id,
     fingerprint_hash |-> fingerprint_hash]

\* A token a hash-keyed record holds: signed by this installation's key over
\* a payload that names the document by its hash id, under document_id or
\* under fingerprint_id.
legacy_token(id_key, fingerprint_hash, expiry_hours) ==
    LET payload == Put([fingerprint_hash |-> fingerprint_hash,
                        qr_data |-> "x",
                        issued_at |-> 0,
                        expires_at |-> expiry_hours * SECONDS_PER_HOUR,
                        version |-> "1.0"], id_key, LegacyId)
    IN  [shape |-> "ok",
         fields |-> {"payload", "signature", "version"},
         payload |-> payload,
         signature |-> hmac_new(ProcessKey, payload),
         version |-> "1.0"]

LegacyTokens ==
    { legacy_token(k, h, e) : k \in {"document_id", "fingerprint_id"},
                              h \in MigHashes, e \in 1..MaxHours }
    \cup {Malformed("bad_base64")}

\* The records a taken-over directory holds under the hash id.
LegacyRecords ==
    { [document_fingerprint |-> legacy_fingerprint(t.payload.fingerprint_hash),
       qr_data |-> "x", binding_token |-> t, created_at |-> 0] :
        t \in LegacyTokens \ {Malformed("bad_base64")} }
    \cup { [document_fingerprint |-> legacy_fingerprint(sha256("a")),
            qr_data |-> "x", binding_token |-> Malformed("bad_base64"),
            created_at |-> 0],
           [document_fingerprint |-> legacy_fingerprint(sha256("a")),
            qr_data |-> "x", created_at |-> 0] }

\* A record this version wrote, under a uuid.
UuidRecord(document_id) ==
    LET fingerprint == uuid_fingerprint(document_id, sha256("a"))
    IN  [document_fingerprint |-> fingerprint,
         qr_data |-> "x",
         binding_token |-> generate_binding_token(ProcessKey, fingerprint, "x", 1, 0, 0),
         created_at |-> 0,
         expires_at |-> SECONDS_PER_HOUR]

\* _update_binding_token, lines 202-252: the payload gets the new id and
\* version 2.0 and is encoded again; the signature field is not touched.
\* A token that does not decode raises.
_update_binding_token_resigned(old_token, new_document_id) ==
    IF old_token.shape /= "ok" \/ "payload" \notin old_token.fields
    THEN [raised |-> TRUE, token |-> old_token]
    ELSE LET payload == Put(Put(old_token.payload, "document_id", new_document_id),
                            "version", "2.0")
         IN  [raised |-> FALSE,
              token |-> [old_token EXCEPT !.payload = payload,
                                          !.signature = hmac_new(ProcessKey, payload),
                                          !.fields = @ \cup {"version"},
                                          !.version = "2.0"]]

_update_binding_token(old_token, new_document_id) ==
    IF old_token.shape /= "ok" \/ "payload" \notin old_token.fields
    THEN [raised |-> TRUE, token |-> old_token]
    ELSE LET payload == Put(Put(old_token.payload, "document_id", new_document_id),
                            "version", "2.0")
         IN  [raised |-> FALSE,
              token |-> [old_token EXCEPT !.payload = payload,
                                          !.fields = @ \cup {"version"},
                                          !.version = "2.0"]]

\* fingerprint.get("version") == "2.0" and "document_id" in fingerprint
already_migrated(record) ==
    /\ "document_fingerprint" \in DOMAIN record
    /\ "version" \in DOMAIN record.document_fingerprint
    /\ record.document_fingerprint.version = "2.0"
    /\ "document_id" \in DOMAIN record.document_fingerprint

\* The record migrate_record writes for one that is not yet migrated,
\* lines 165-176. A token whose update raises stays as it was.
migrated_record(record, new_document_id) ==
    LET fingerprint == Put(Put(record.document_fingerprint,
                               "document_id", new_document_id), "version", "2.0")
        with_fingerprint == [record EXCEPT !.document_fingerprint = fingerprint]
    IN  IF "binding_token" \in DOMAIN record
        THEN [with_fingerprint EXCEPT !.binding_token =
                  _update_binding_token(record.binding_token, new_document_id).token]
        ELSE with_fingerprint

MigrateReturn(dir, success, message, new_file, rewritten) ==
    [dir |-> dir, success |-> success, message |-> message,
     new_file |-> new_file, rewritten |-> rewritten]

\* migrate_record, lines 143-200, on the file record_file of dir, with the
\* uuid that uuid.uuid4() returns.
migrate_record(dir, record_file, new_document_id) ==
    IF dir[record_file].state /= "complete"
    THEN MigrateReturn(dir, FALSE, "error", record_file, FALSE)
    ELSE LET record == dir[record_file].record
             new_file == FileName(record_file.prefix, new_document_id)
         IN  IF already_migrated(record)
             THEN MigrateReturn(dir, TRUE, "Already migrated", record_file, FALSE)
             ELSE MigrateReturn(
                      [n \in MigNames |->
                          IF n = new_file
                          THEN CompleteFile(migrated_record(record, new_document_id))
                          ELSE IF n = record_file THEN UnlinkedFile ELSE dir[n]],
                      TRUE, "Migrated", new_file,
                      /\ "binding_token" \in DOMAIN record
                      /\ ~_update_binding_token(record.binding_token,
                                                new_document_id).raised)

NoMigration == [success |-> FALSE, message |-> "none"]
NotVerified == [time |-> -1]

\* The directories a migration is started on: hash-keyed files, and possibly
\* a record this version already wrote.
MigrationDir(legacy, prereg, current) ==
    [n \in MigNames |->
        IF n = FileName("", LegacyId) /\ legacy /= PyNone THEN CompleteFile(legacy)
        ELSE IF n = FileName("prereg_", LegacyId) /\ prereg /= PyNone THEN CompleteFile(prereg)
        ELSE IF n = FileName("", 1) /\ current THEN CompleteFile(UuidRecord(1))
        ELSE NoFile]

MigrationDirs ==
    { MigrationDir(l, p, c) : l \in LegacyRecords,
                               p \in {PyNone, CHOOSE r \in LegacyRecords : TRUE},
                               c \in BOOLEAN }

InitMigrationOn(dir) ==
    /\ migDir = dir
    /\ migrated = NoMigration

InitMigration == InitMigrationOn(MigrationDir(PyNone, PyNone, FALSE))

\* uuids no file of the directory was ever named by
FreshMigIds ==
    { i \in MigIds : \A p \in {"", "prereg_"} : migDir[FileName(p, i)] = NoFile }

MigrationObserving == migrated /= NoMigration

\* one migrate_record call of run_migration, or of a caller of its own, on a
\* file of the directory
Migrate ==
    /\ ~MigrationObserving
    /\ \E record_file \in MigNames, new_document_id \in FreshMigIds :
          /\ migDir[record_file].state = "complete"
          /\ new_document_id = CHOOSE i \in FreshMigIds : \A j \in FreshMigIds : i <= j
          /\ LET r == migrate_record(migDir, record_file, new_document_id)
             IN  /\ migDir' = r.dir
                 /\ migrated' = [record_file |-> record_file,
                                 before |-> migDir,
                                 success |-> r.success,
                                 message |-> r.message,
                                 new_file |-> r.new_file,
                                 rewritten |-> r.rewritten,
                                 verification |-> NotVerified]
    /\ UNCHANGED <<stegoVars, tokenVars, envVars, keyVars, storeVars, flowVars, frameVars>>

MigInstants == {0, SECONDS_PER_HOUR, SECONDS_PER_HOUR + 1}

\* the token of the file the call left is presented with a document
VerifyMigrated ==
    /\ MigrationObserving
    /\ migrated.success
    /\ migrated.verification = NotVerified
    /\ "binding_token" \in DOMAIN migDir[migrated.new_file].record
    /\ \E h \in MigHashes, t \in MigInstants :
          LET document_fingerprint ==
                  uuid_fingerprint(migDir[migrated.new_file].record.document_fingerprint.document_id, h)
          IN  migrated' = [migrated EXCEPT !.verification =
                  [fingerprint |-> document_fingerprint,
                   time |-> t,
                   result |-> verify_binding_token(ProcessKey,
                                  migDir[migrated.new_file].record.binding_token,
                                  document_fingerprint, t)]]
    /\ UNCHANGED <<migDir, stegoVars, tokenVars, envVars, keyVars, storeVars, flowVars, frameVars>>

\* the caller goes on to the next file
MigrationResume ==
    /\ MigrationObserving
    /\ migrated' = NoMigration
    /\ UNCHANGED <<migDir, stegoVars, tokenVars, envVars, keyVars, storeVars, flowVars, frameVars>>

NextMigration == Migrate \/ VerifyMigrated \/ MigrationResume

---------------------------------------------------------------------------
(* Embedding workflows *)

\* The threads or processes that run a workflow each.
Workers == {1, 2}

MaxFlowClock == 1

\* The seconds int(time.time()) returns during one run.
FlowInstants == 0..MaxFlowClock

\* The documents the workflows are called with: directory, name, extension.
Document(dir, name, ext) == [dir |-> dir, name |-> name, ext |-> ext]

FlowDocuments ==
    { Document("d", "a", ".docx"), Document("d", "b", ".docx"),
      Document("d", "a", ".pdf"), Document("e", "a", ".docx"),
      Document("d", "a", ".txt") }

FlowData == {"x", "y"}

\* os.path.join(base_dir, f"{prefix}{workflow_id}{ext}")
Path(dir, prefix, workflow_id, ext) ==
    [dir |-> dir, prefix |-> prefix, workflow_id |-> workflow_id, ext |-> ext]

\* f"secure_workflow_{int(time.time())}" and f"legacy_workflow_{...}"
workflow_id_of(mode, current_time) == [mode |-> mode, time |-> current_time]

\* Lines 278 and 379.
qr_output_path(mode, document, current_time) ==
    Path(document.dir, mode \o "_qr_", workflow_id_of(mode, current_time), ".png")

\* Lines 312 and 394: the extension is the document's, lower-cased.
embedded_doc_path(mode, document, qr_path) ==
    Path(document.dir, "embedded_" \o mode \o "_", qr_path.workflow_id, document.ext)

\* What the QR image carries: the envelope with this call's token, whose
\* payload names the uuid of this call's fingerprint, or the bare data.
QrContent(mode, qr_data, document, w) ==
    IF mode = "secure"
    THEN [mode |-> mode, data |-> qr_data, document |-> document, document_id |-> w]
    ELSE [mode |-> mode, data |-> qr_data]

\* What embed_watermark_to_docx / _to_pdf saves: the document with the image
\* it read from qr_path.
EmbeddedContent(document, qr_image) == [document |-> document, qr |-> qr_image]

IdleCall == [pc |-> "idle"]

\* open(path, 'w') and write, by whichever call
WriteFile(files, path, content) ==
    [p \in DOMAIN files \cup {path} |-> IF p = path THEN content ELSE files[p]]

NoFiles == <<>>

InitFlow ==
    /\ flow = [w \in Workers |-> IdleCall]
    /\ outputs = NoFiles
    /\ flowClock = 0

\* a second passes
FlowTick ==
    /\ flowClock + 1 \in FlowInstants
    /\ flowClock' = flowClock + 1
    /\ UNCHANGED <<flow, outputs, stegoVars, tokenVars, envVars, keyVars, storeVars, migVars, frameVars>>

\* Lines 268-278 and 374-379: the call reads the clock and names its paths.
StartWorkflow(w) ==
    /\ flow[w].pc = "idle"
    /\ \E mode \in {"secure", "legacy"}, document \in FlowDocuments,
          qr_data \in FlowData, auto_embed \in BOOLEAN :
          /\ mode = "legacy" => auto_embed
          /\ flow' = [flow EXCEPT ![w] =
                [pc |-> "generating",
                 mode |-> mode,
                 document |-> document,
                 qr_data |-> qr_data,
                 auto_embed |-> auto_embed,
                 qr_path |-> qr_output_path(mode, document, flowClock)]]
    /\ UNCHANGED <<outputs, flowClock, stegoVars, tokenVars, envVars, keyVars, storeVars, migVars, frameVars>>

\* Lines 282-287 and 383: the QR image is saved at qr_output_path. A secure
\* call without auto_embed returns here.
GenerateQr(w) ==
    /\ flow[w].pc = "generating"
    /\ outputs' = WriteFile(outputs, flow[w].qr_path,
                      QrContent(flow[w].mode, flow[w].qr_data, flow[w].document, w))
    /\ flow' = [flow EXCEPT ![w].pc =
                    IF flow[w].auto_embed THEN "embedding" ELSE "returned"]
    /\ UNCHANGED <<flowClock, stegoVars, tokenVars, envVars, keyVars, storeVars, migVars, frameVars>>

\* Lines 306-344 and 392-408: the embedder reads the image at qr_output_path
\* and saves the document at embedded_doc_path; any other extension than
\* .docx and .pdf returns the failure without embedding.
EmbedDocument(w) ==
    /\ flow[w].pc = "embedding"
    /\ IF flow[w].document.ext \in {".docx", ".pdf"}
       THEN /\ outputs' = WriteFile(outputs,
                              embedded_doc_path(flow[w].mode, flow[w].document, flow[w].qr_path),
                              EmbeddedContent(flow[w].document, outputs[flow[w].qr_path]))
            /\ flow' = [flow EXCEPT ![w].pc = "returned"]
       ELSE /\ outputs' = outputs
            /\ flow' = [flow EXCEPT ![w].pc = "failed"]
    /\ UNCHANGED <<flowClock, stegoVars, tokenVars, envVars, keyVars, storeVars, migVars, frameVars>>

\* the callers have used the results; the directories are cleared
ResetFlow ==
    /\ \A w \in Workers : flow[w].pc \in {"returned", "failed"}
    /\ flow' = [w \in Workers |-> IdleCall]
    /\ outputs' = NoFiles
    /\ flowClock' = 0
    /\ UNCHANGED <<stegoVars, tokenVars, envVars, keyVars, storeVars, migVars, frameVars>>

NextFlow ==
    \/ FlowTick
    \/ \E w \in Workers : StartWorkflow(w) \/ GenerateQr(w) \/ EmbedDocument(w)
    \/ ResetFlow

---------------------------------------------------------------------------
(* Specifications *)

Init ==
    /\ InitStego /\ InitToken /\ InitEnvelope /\ InitKey
    /\ InitStore /\ InitMigration /\ InitFlow /\ InitFrame

SpecStego == Init /\ [][NextStego]_vars

SpecToken == Init /\ [][NextToken]_vars

SpecEnvelope == Init /\ [][NextEnvelope]_vars

SpecKey == Init /\ [][NextKey]_vars

\* The storage machine starts on a new or on a taken-over directory.
InitStorage ==
    /\ InitStego /\ InitToken /\ InitEnvelope /\ InitKey
    /\ InitStoreOn(EmptyDir) \/ InitStoreOn(UpgradedDir)
    /\ InitMigration /\ InitFlow /\ InitFrame

SpecStorage == InitStorage /\ [][NextStore]_vars

SpecFrame == Init /\ [][NextFrame]_vars

\* The migration starts on a directory that holds hash-keyed records.
InitMigrating ==
    /\ InitStego /\ InitToken /\ InitEnvelope /\ InitKey /\ InitStore
    /\ \E dir \in MigrationDirs : InitMigrationOn(dir)
    /\ InitFlow /\ InitFrame

SpecMigration == InitMigrating /\ [][NextMigration]_vars

SpecFlow == Init /\ [][NextFlow]_vars

Next ==
    \/ NextStego \/ NextToken \/ NextEnvelope \/ NextKey \/ NextStore \/ NextFrame
    \/ NextMigration \/ NextFlow

Spec == Init /\ [][Next]_vars

---------------------------------------------------------------------------
(* Claims about the steganography codec (SpecStego) *)

CoverPixels == Pixels(cover)

\* C1: for every cover of P pixels and payload w x h with w*h + 40 <= P
\* (the boundary w*h + 40 = P included), extracting from the stego image
\* that embed produced returns a bitmap equal to the payload, dimensions
\* and pixels.
C1_RoundTrip ==
    (pc = "extracted" /\ Pixels(qr) + 40 <= CoverPixels)
        => /\ embedded.outcome = "returned"
           /\ extracted.outcome = "returned"
           /\ extracted.image = qr

\* The header fields as they stand in the blue LSBs of an image.
StegoHeaderField(img, first, last) ==
    binary_to_int([i \in 1..(last - first + 1) |->
                      extract_lsb(img.px[first + i - 1][3])])

ResizeCase ==
    /\ pc /= "start"
    /\ resize_flag
    /\ Pixels(qr) + 40 > CoverPixels
    /\ CoverPixels > 40

\* C10: whenever embed resizes the payload (w*h + 40 > P, resize enabled,
\* P > 40) the payload embedded is a square d x d with d = floor(sqrt(P-40)),
\* so d*d + 40 <= P; d is fixed by P alone; the header written into the
\* stego image carries (d, d); a 20x20 cover with a 30x30 payload embeds
\* an 18x18 payload.
C10_ResizeBound ==
    ResizeCase =>
        LET d == embedded.qr_img.width
        IN  /\ embedded.outcome = "returned"
            /\ embedded.resized
            /\ embedded.qr_img.height = d
            /\ d * d <= CoverPixels - 40
            /\ (d + 1) * (d + 1) > CoverPixels - 40
            /\ d * d + 40 <= CoverPixels
            /\ Len(embedded.qr_bits) = d * d
            /\ StegoHeaderField(embedded.stego_img, 1, 16) = d
            /\ StegoHeaderField(embedded.stego_img, 17, 32) = d
            /\ (CoverPixels = 400 => d = 18)

C10_Witness ==
    /\ ResizeCase
    /\ cover.width = 20 /\ cover.height = 20
    /\ qr.width = 30 /\ qr.height = 30
    /\ embedded.qr_img.width = 18 /\ embedded.qr_img.height = 18
    /\ StegoHeaderField(embedded.stego_img, 1, 16) = 18

---------------------------------------------------------------------------
(* Claims about the binding tokens (SpecToken) *)

Verified == result /= NoResult

\* The presented token decodes and has its three fields.
WellFormed(tok) == tok.shape = "ok" /\ first_missing(tok) = 0

GoodSignature(tok) == tok.signature = hmac_new(secret_key, tok.payload)

\* C2: a token issued for a document is valid when verified, before expiry,
\* against a fingerprint computed by a later generate_document_fingerprint
\* call on the same unchanged document.
C2_FreshFingerprintVerifies ==
    (/\ Verified
     /\ result.token = issued.token
     /\ result.fp.fields.file_info.name = issued.fp.fields.file_info.name
     /\ result.fp.content_hash = issued.fp.content_hash
     /\ result.fp.document_id /= issued.fp.document_id
     /\ result.time <= issued.token.payload.expires_at)
        => result.ret.valid

\* C3: for t = issue(fp, data, h), verify(t, fp) is valid at every time
\* now < issued_at + h*3600 and is invalid with reason Expired at every time
\* after issued_at + h*3600; a token issued with expiry_hours = 0 is Expired
\* one second later.
C3_TokenSoundness ==
    (Verified /\ result.token = issued.token /\ result.fp = issued.fp)
        => LET deadline == issued.token.payload.issued_at
                              + issued.expiry_hours * 3600
           IN  /\ result.time < deadline => result.ret.valid
               /\ result.time > deadline =>
                     /\ ~result.ret.valid
                     /\ result.ret.error = "Token expired"

\* C4: flipping any single bit of an issued token's signature makes verify
\* return the invalid-signature result, and no token whose signature differs
\* from the HMAC of its payload under the process key is reported valid.
C4_TamperSensitivity ==
    (Verified /\ WellFormed(result.token))
        => /\ (\E i \in SigBitPositions :
                  result.token.signature = FlipBit(issued.token.signature, i))
                 => /\ ~result.ret.valid
                    /\ result.ret.error = "Invalid token signature"
           /\ ~GoodSignature(result.token)
                 => /\ ~result.ret.valid
                    /\ result.ret.error = "Invalid token signature"

C4_Witness ==
    /\ Verified
    /\ result.token =
          [issued.token EXCEPT !.signature = FlipBit(@, 8 * HMAC_DIGEST_LENGTH - 1)]
    /\ result.fp = issued.fp
    /\ result.time <= issued.token.payload.expires_at
    /\ result.ret.error = "Invalid token signature"

\* C5: verifying a correctly signed, unexpired token against the fingerprint
\* of a different document (another fingerprint_hash) returns invalid with
\* the fingerprint-mismatch reason, never valid.
C5_FingerprintBinding ==
    (/\ Verified
     /\ WellFormed(result.token)
     /\ GoodSignature(result.token)
     /\ result.time <= result.token.payload.expires_at
     /\ result.token.payload.fingerprint_hash /= result.fp.fingerprint_hash)
        => /\ ~result.ret.valid
           /\ result.ret.error = "Document fingerprint mismatch"

C5_Witness ==
    /\ Verified
    /\ result.token = issued.token
    /\ result.time <= result.token.payload.expires_at
    /\ result.fp.fields.file_info.name /= issued.fp.fields.file_info.name
    /\ result.ret.error = "Document fingerprint mismatch"

Expired(r) == r.time > r.token.payload.expires_at
Mismatched(r) == r.token.payload.fingerprint_hash /= r.fp.fingerprint_hash

\* C6: verify checks the signature first, then expiry, then the fingerprint:
\* a badly signed token is InvalidSignature whatever its payload says (also
\* when expired or mismatched), and a correctly signed token that is both
\* expired and bound to another fingerprint is Expired, not mismatched.
C6_CheckOrder ==
    (Verified /\ WellFormed(result.token))
        => /\ ~GoodSignature(result.token)
                 => result.ret.error = "Invalid token signature"
           /\ (GoodSignature(result.token) /\ Expired(result))
                 => result.ret.error = "Token expired"
           /\ (GoodSignature(result.token) /\ ~Expired(result) /\ Mismatched(result))
                 => result.ret.error = "Document fingerprint mismatch"

C6_Witness ==
    /\ Verified
    /\ WellFormed(result.token)
    /\ GoodSignature(result.token)
    /\ Expired(result)
    /\ Mismatched(result)
    /\ result.ret.error = "Token expired"

NegativeOutcome(r) ==
    /\ WellFormed(r.token)
    /\ ~GoodSignature(r.token) \/ Expired(r) \/ Mismatched(r)

\* C7: for a bad signature, an expired token or a mismatched fingerprint
\* verify does not raise: it returns a result with valid = false and a
\* reason, and the call changes nothing of the caller's state (the key, the
\* fingerprint, the token, the issue record, the clock).
C7_NegativeOutcomesReturn ==
    /\ [](Verified /\ NegativeOutcome(result)
            => /\ ~result.ret.raised
               /\ ~result.ret.valid
               /\ result.ret.error \in {"Invalid token signature",
                                        "Token expired",
                                        "Document fingerprint mismatch"})
    /\ [][(result = NoResult /\ result' /= NoResult)
            => UNCHANGED <<now, secret_key, nextUuid, fp, token, issued>>]_vars

C7_Witness ==
    /\ Verified
    /\ NegativeOutcome(result)
    /\ Expired(result)
    /\ ~result.ret.raised
    /\ ~result.ret.valid
    /\ result.ret.error = "Token expired"

MalformedToken(tok) ==
    \/ tok.shape \in {"bad_base64", "not_json"}
    \/ tok.shape = "ok" /\ first_missing(tok) /= 0

\* C8 (as stated): verify raises an exception, and returns no result, for a
\* token that is not well-formed base64 or whose decoded JSON lacks a
\* required key (payload, signature, version).
C8_MalformedRaises ==
    (Verified /\ MalformedToken(result.token)) => result.ret.raised

\* C8 (amended): verify does not raise for such input either; it returns
\* valid = false with the error "Verification failed" (undecodable base64),
\* "Invalid token format" (not JSON) or "Missing token field: <f>" for the
\* first required field f, in the order payload, signature, version, that
\* the decoded JSON lacks.
C8_MalformedReturnsInvalid ==
    (Verified /\ MalformedToken(result.token))
        => /\ ~result.ret.raised
           /\ ~result.ret.valid
           /\ result.token.shape = "bad_base64"
                 => result.ret.error = "Verification failed"
           /\ result.token.shape = "not_json"
                 => result.ret.error = "Invalid token format"
           /\ result.token.shape = "ok"
                 => \E i \in 1..Len(required_fields) :
                       /\ required_fields[i] \notin result.token.fields
                       /\ \A j \in 1..(i - 1) :
                             required_fields[j] \in result.token.fields
                       /\ result.ret.error =
                             "Missing token field: " \o required_fields[i]

C8_Witness ==
    /\ Verified
    /\ result.token.shape = "bad_base64"
    /\ ~result.ret.raised
    /\ result.ret.error = "Verification failed"

\* C9: every token produced by issue has
\* expires_at = issued_at + expiry_hours*3600 exactly, whatever the clock
\* does between the steps of issue.
C9_ExpiryExact ==
    token /= NoToken
        => token.payload.expires_at =
              token.payload.issued_at + issued.expiry_hours * 3600

---------------------------------------------------------------------------
(* Claims about capacity, frame and extraction failures (SpecStego) *)

EmbedCalled == pc /= "start" /\ cover /= NoImage

Fits == Pixels(qr) + 40 <= CoverPixels

EmbeddedAsGiven == embedded.outcome = "returned" /\ ~embedded.resized

CapacityErrors == {"capacity", "header_capacity", "capacity_after_resize"}

C13_LsbFrame ==
    (EmbedCalled /\ embedded.outcome = "returned") =>
        LET s == embedded.stego_img
            bits == embedded.header_bits \o embedded.qr_bits
            n == 40 + Pixels(embedded.qr_img)
        IN  /\ Len(bits) = n
            /\ n <= CoverPixels
            /\ s.width = cover.width
            /\ s.height = cover.height
            /\ embedded.cover_img = cover
            /\ \A y \in 0..(cover.height - 1), x \in 0..(cover.width - 1) :
                  LET k == y * cover.width + x
                      before == getpixel(cover, x, y)
                      after == getpixel(s, x, y)
                  IN  /\ after[1] = before[1]
                      /\ after[2] = before[2]
                      /\ after[3] \div 2 = before[3] \div 2
                      /\ k < n => extract_lsb(after[3]) = bits[k + 1]
                      /\ k >= n => after = before

\* An embedding that changed one blue sample, kept another as it was, and
\* left pixels beyond the bitstream, on a cover of more than one row.
C13_Witness ==
    /\ pc /= "start"
    /\ embedded.outcome = "returned"
    /\ cover.height > 1
    /\ 40 + Pixels(embedded.qr_img) < CoverPixels
    /\ \E i, j \in 1..(40 + Pixels(embedded.qr_img)) :
          /\ embedded.stego_img.px[i][3] /= cover.px[i][3]
          /\ embedded.stego_img.px[j][3] = cover.px[j][3]

HeaderErrors == {"header_not_found", "header_length", "terminator_not_found"}

ExtractCalled == pc = "extracted" /\ outFile /= NoImage

\* The first 40 blue LSBs of the image at the stego path end in eight zeros.
HeaderRead ==
    /\ Pixels(outFile) >= 40
    /\ \A j \in 33..40 : outFile.px[j][3] % 2 = 0

\* C14: extract reports HeaderNotFound when no valid 40-bit header is found
\* and InsufficientData when a header (w,h) was read but fewer than w*h
\* pixels remain after the 40 header pixels; InsufficientData if and only
\* if P - 40 < w*h; in neither case is an output bitmap produced.
C14_ExtractFailures ==
    ExtractCalled =>
        LET w == StegoHeaderField(outFile, 1, 16)
            h == StegoHeaderField(outFile, 17, 32)
        IN  /\ ~HeaderRead <=> extracted.error \in HeaderErrors
            /\ extracted.error = "insufficient_data"
                  <=> (HeaderRead /\ Pixels(outFile) - 40 < w * h)
            /\ extracted.error \in HeaderErrors \cup {"insufficient_data"}
                  => /\ extracted.outcome = "ValueError"
                     /\ extracted.image = NoImage

\* A header was read from an image that is one pixel short of its payload.
C14_Witness ==
    /\ ExtractCalled
    /\ HeaderRead
    /\ extracted.error = "insufficient_data"
    /\ Pixels(outFile) - 40 = extracted.qr_width * extracted.qr_height - 1

\* The sample counts after the 40th at which the blue LSBs read so far end
\* in eight zeros.
LateTerminators ==
    { n \in 41..Pixels(outFile) : \A j \in (n - 7)..n : outFile.px[j][3] % 2 = 0 }

\* C15: if the last 8 of the first 40 LSBs are not the terminator, the
\* reader scans on within a bounded window and fails with HeaderNotFound
\* when no terminator is found within 40 + 500 bits or the image is
\* exhausted; the header phase reads at most 40 + 500 samples.
C15_HeaderSearchBudget ==
    ExtractCalled =>
        /\ ~HeaderRead => /\ extracted.outcome = "ValueError"
                          /\ extracted.error \in HeaderErrors
        /\ extracted.pixels_processed <= 40 + HEADER_SEARCH_TOLERANCE

\* C15 (amended): if the last 8 of the first 40 LSBs are not the terminator,
\* the reader scans on and always fails: with the header-length error at the
\* first later sample, up to the 541st, where the bits read end in the
\* terminator; else with terminator-not-found on the 541st sample; else,
\* in an image of at most 540 pixels, with header-not-found after the last
\* pixel.  The header phase reads at most 40 + 500 + 1 samples, and exactly
\* 40 when the header is in place.
C15_HeaderSearchBudgetPlusOne ==
    ExtractCalled =>
        LET P == Pixels(outFile)
            budget == 40 + HEADER_SEARCH_TOLERANCE + 1
            late == { n \in LateTerminators : n <= budget }
        IN  /\ extracted.pixels_processed <= budget
            /\ extracted.pixels_processed <= P
            /\ HeaderRead => extracted.pixels_processed = 40
            /\ ~HeaderRead =>
                  /\ extracted.outcome = "ValueError"
                  /\ extracted.image = NoImage
                  /\ IF late /= {}
                     THEN /\ extracted.error = "header_length"
                          /\ extracted.pixels_processed \in late
                          /\ \A n \in late : extracted.pixels_processed <= n
                     ELSE IF P >= budget
                     THEN /\ extracted.error = "terminator_not_found"
                          /\ extracted.pixels_processed = budget
                     ELSE /\ extracted.error = "header_not_found"
                          /\ extracted.pixels_processed = P

\* The search gave up on the 541st sample of a longer image.
C15_Witness ==
    /\ ExtractCalled
    /\ ~HeaderRead
    /\ Pixels(outFile) > 40 + HEADER_SEARCH_TOLERANCE + 1
    /\ extracted.error = "terminator_not_found"
    /\ extracted.pixels_processed = 40 + HEADER_SEARCH_TOLERANCE + 1

---------------------------------------------------------------------------
(* Claims about the secure envelope (SpecEnvelope) *)

\* The text parses as JSON to an object whose type is "secure".
SecureObject(text) ==
    /\ text.kind = "json"
    /\ text.value.kind = "dict"
    /\ "type" \in DOMAIN text.value.items
    /\ text.value.items["type"] = Str("secure", 6)

\* C16: for every input string that is not valid JSON, or that parses as
\* JSON but is not an object with type "secure", unwrap returns
\* is_secure = false, binding_token absent and original_data equal to the
\* whole input string.
C16_LegacyFallback ==
    (parsed /= NoParse /\ ~SecureObject(qrText.text)) =>
        /\ parsed.outcome = "returned"
        /\ parsed.is_secure = FALSE
        /\ parsed.binding_token = PyNone
        /\ parsed.original_data = qrText.text

\* C17: for every data string and token, unwrap(wrap(data, token)) returns
\* is_secure = true, original_data = data, binding_token = token and
\* version "2.0"; for a secure envelope with no version field unwrap
\* reports version "1.0".
C17_EnvelopeRoundTrip ==
    parsed /= NoParse =>
        /\ qrText.origin = "wrap" =>
              /\ parsed.outcome = "returned"
              /\ parsed.is_secure
              /\ parsed.original_data = qrText.data
              /\ parsed.binding_token = qrText.binding_token
              /\ parsed.version = Str("2.0", 3)
        /\ (SecureObject(qrText.text)
               /\ "version" \notin DOMAIN qrText.text.value.items) =>
              /\ parsed.outcome = "returned"
              /\ parsed.is_secure
              /\ parsed.version = Str("1.0", 3)

\* An envelope whose data is itself the text of a secure envelope was
\* wrapped and unwrapped.
C17_Witness ==
    /\ parsed /= NoParse
    /\ qrText.origin = "wrap"
    /\ SecureObject(qrText.data)
    /\ parsed.original_data = qrText.data
    /\ parsed.binding_token \in Tokens

\* Some version 1..10 at some error-correction level holds the text.
FitsQr(text) ==
    \E version \in 1..10, ec_level \in {"L", "M", "Q", "H"} :
        QR_CAPACITY_BYTE[version][ec_level] >= Length(text)

\* C18: when the full secure envelope exceeds the QR capacity the issue path
\* re-encodes it in the compact form; when even the compact form does not
\* fit it fails with EnvelopeTooLarge; an over-capacity full envelope is
\* never passed on to QR generation.
C18_CompactFallback ==
    bound /= NoBound =>
        /\ (~FitsQr(bound.full) /\ FitsQr(bound.compact)) =>
              /\ bound.outcome = "qr_generation"
              /\ bound.secure_qr_data = bound.compact
        /\ (~FitsQr(bound.full) /\ ~FitsQr(bound.compact)) =>
              bound.outcome = "DocumentSecurityError"
        /\ bound.outcome = "qr_generation" => FitsQr(bound.secure_qr_data)

---------------------------------------------------------------------------
(* Claims about the key file (SpecKey) *)

\* A token issued under the key of binder a verifies under the key of b.
CrossVerifies(a, b) ==
    LET document_fingerprint == generate_document_fingerprint("a.docx", 1, 0)
        tok == generate_binding_token(binder[a].key, document_fingerprint,
                                      "x", 1, 0, 0)
    IN  verify_binding_token(binder[b].key, tok, document_fingerprint, 0).valid

\* C19: over any interleaving of DocumentBinder initialisations against one
\* key file, starting with the file absent, a key is generated at most
\* once, every binder holds the persisted key, and a token issued by one
\* binder verifies under any other.
C19_KeyStability ==
    /\ keysMade <= 1
    /\ \A a \in Binders :
          binder[a].pc = "done" => binder[a].key = keyFile.key
    /\ \A a, b \in Binders :
          (binder[a].pc = "done" /\ binder[b].pc = "done") => CrossVerifies(a, b)

---------------------------------------------------------------------------
(* Claims about fingerprints (SpecToken) *)

\* C20: two fingerprint computations over identical byte content, identical
\* metadata and identical timestamp produce the same fingerprint_hash.
C20_FingerprintDeterministic ==
    (/\ issued /= NoIssue
     /\ fp /= NoFp
     /\ fp.content_hash = issued.fp.content_hash
     /\ fp.fields.file_info = issued.fp.fields.file_info
     /\ fp.fields.document_metadata = issued.fp.fields.document_metadata
     /\ fp.fields.timestamp = issued.fp.fields.timestamp)
        => fp.fingerprint_hash = issued.fp.fingerprint_hash

---------------------------------------------------------------------------
(* Claims about the binding storage (SpecStorage) *)

\* The files the issue path and pre-registration have written completely.
PersistedNames ==
    { n \in StoreNames : n.id /= LegacyId /\ store[n].state = "complete" }

RecordFields ==
    {"document_fingerprint", "qr_data", "binding_token", "status",
     "created_at", "expires_at"}

\* C21: every binding record persisted by the issue path or by
\* pre-registration contains document_fingerprint, qr_data, binding_token,
\* status, created_at and expires_at, with status pre_registered under a
\* prereg_ key and status active under the bare document_id.
C21_RecordFields ==
    \A n \in PersistedNames :
        /\ RecordFields \subseteq DOMAIN store[n].record
        /\ store[n].record.status =
              (IF n.prefix = "prereg_" THEN "pre_registered" ELSE "active")

\* What a reader of a file in this state is to see: its record, or absence.
RecordOrAbsence(file) ==
    IF file.state = "complete" THEN file.record ELSE PyNone

\* A load of the key a save has opened and not closed, be the saver still
\* running or dead.
LoadedDuringSave ==
    /\ lastLoad /= NoLoad
    /\ lastLoad.saver.step \in {"open", "crashed"}
    /\ lastLoad.saver.key = lastLoad.key

\* C22: a load of a key whose save is in progress, or was interrupted by a
\* crash, returns either the complete previous record (None when there was
\* none) or the complete new record.
C22_AtomicSave ==
    LoadedDuringSave =>
        lastLoad.returned \in {RecordOrAbsence(lastLoad.saver.previous),
                               lastLoad.saver.record}

\* The names whose file the last sweep removed.
SweptNames ==
    { n \in StoreNames : swept.before[n].state /= "absent"
                         /\ swept.after[n].state = "absent" }

\* The token of a stored record, verified against the record's own
\* fingerprint at the sweep's instant, is refused as expired.
TokenExpired(record, current_time) ==
    verify_binding_token(ProcessKey, record.binding_token,
                         record.document_fingerprint, current_time).error
        = "Token expired"

---------------------------------------------------------------------------
(* Claims about the header (SpecFrame) and the save (SpecStego) *)

\* The embedding that was followed returned: a payload was embedded.
FrameEmbedded == framed /= NoFrame /\ framed.outcome = "returned"

\* C24: for every payload that embed_qr_to_image embeds the header is
\* exactly 40 bits: the width as 16 bits, most significant first, in bits
\* 0-15, the height likewise in bits 16-31, eight zero bits in 32-39;
\* decoding the two fields gives the embedded width and height, also when
\* the saved image is read back.
C24_HeaderLayout ==
    FrameEmbedded =>
        /\ Len(framed.header_bits) = 40
        /\ SubSeq(framed.header_bits, 1, 16) = int_to_binary(framed.qr_width, 16)
        /\ SubSeq(framed.header_bits, 17, 32) = int_to_binary(framed.qr_height, 16)
        /\ SubSeq(framed.header_bits, 33, 40) = HEADER_TERMINATOR_BIN
        /\ binary_to_int(SubSeq(framed.header_bits, 1, 16)) = framed.qr_width
        /\ binary_to_int(SubSeq(framed.header_bits, 17, 32)) = framed.qr_height
        /\ framed.read /= NoRead =>
              /\ framed.read.found
              /\ framed.read.qr_width = framed.qr_width
              /\ framed.read.qr_height = framed.qr_height

\* C25: whenever embed_qr_to_image returns without raising, the stego image
\* with all 40 + w*h bits is in the file at the output path; no input, none
\* with 40 + w*h equal to the cover's pixel count either, returns normally
\* without the output written.
C25_ReturnedMeansSaved ==
    (EmbedCalled /\ embedded.outcome = "returned") =>
        /\ embedded.saved
        /\ outFile = embedded.stego_img
        /\ Len(embedded.header_bits) + Len(embedded.qr_bits)
              = 40 + Pixels(embedded.qr_img)

---------------------------------------------------------------------------
(* Claims about the position of the terminator (SpecStego) *)

\* extract went past the header phase: it decoded a width and a height.
DimensionsDecoded == extracted.error \notin HeaderErrors

\* C26: extract accepts a header only when the terminator occupies bits
\* 32-39: it decodes dimensions if and only if the LSBs of samples 32..39
\* are all zero, and a zero byte that first appears ending at any later
\* position makes extraction fail with the header-length error.
C26_TerminatorPosition ==
    ExtractCalled =>
        /\ DimensionsDecoded <=> HeaderRead
        /\ (~HeaderRead /\ LateTerminators /= {}) =>
              /\ extracted.outcome = "ValueError"
              /\ extracted.error = "header_length"

\* C26 (amended): extract decodes dimensions if and only if the LSBs of
\* samples 32..39 are all zero, and then they are the two 16-bit fields
\* before them; a zero byte that first appears ending at a later sample, up
\* to the 541st, makes extraction fail with the header-length error, and one
\* that first appears ending beyond the 541st is never read: extraction has
\* failed with terminator-not-found on the 541st sample.
C26_TerminatorPositionInWindow ==
    ExtractCalled =>
        /\ DimensionsDecoded <=> HeaderRead
        /\ (HeaderRead /\ extracted.error = "insufficient_data") =>
              /\ extracted.qr_width = StegoHeaderField(outFile, 1, 16)
              /\ extracted.qr_height = StegoHeaderField(outFile, 17, 32)
        /\ (~HeaderRead /\ LateTerminators /= {}) =>
              /\ extracted.outcome = "ValueError"
              /\ extracted.image = NoImage
              /\ IF \E n \in LateTerminators : n <= 40 + HEADER_SEARCH_TOLERANCE + 1
                 THEN extracted.error = "header_length"
                 ELSE /\ extracted.error = "terminator_not_found"
                      /\ extracted.pixels_processed = 40 + HEADER_SEARCH_TOLERANCE + 1

\* A zero byte ending on the 542nd sample, and none before it.
C26_Witness ==
    /\ ExtractCalled
    /\ ~HeaderRead
    /\ LateTerminators /= {}
    /\ \A n \in LateTerminators : n > 40 + HEADER_SEARCH_TOLERANCE + 1
    /\ extracted.error = "terminator_not_found"

---------------------------------------------------------------------------
(* Claims about the compatibility check (SpecStego) *)

\* C27: check_qr_compatibility agrees with the embedder: for every cover of
\* P pixels and payload w x h it reports resize_required exactly when
\* embed_qr_to_image would resize the payload (w*h + 40 > P), and it reports
\* compatible = false only when embed_qr_to_image with resize enabled would
\* fail.
C27_CompatibilityAgrees ==
    (EmbedCalled /\ compatibility.outcome = "returned") =>
        /\ compatibility.resize_required <=> (Pixels(qr) + 40 > CoverPixels)
        /\ ~compatibility.compatible =>
              embed_qr_to_image(cover, qr, TRUE).outcome /= "returned"

---------------------------------------------------------------------------
(* Claims about issued envelopes (SpecEnvelope) *)

\* The QR that generate_bound_qr issued was read back and parsed.
IssuedParsed == qrText.origin = "issued" /\ parsed /= NoParse

---------------------------------------------------------------------------
(* C29 *)

\* The files whose token an earlier migrate_record call rewrote: migrated
\* hash-keyed records that hold a token that decodes.
RewrittenFiles ==
    { n \in MigNames :
        /\ migDir[n].state = "complete"
        /\ already_migrated(migDir[n].record)
        /\ "fingerprint_id" \in DOMAIN migDir[n].record.document_fingerprint
        /\ "binding_token" \in DOMAIN migDir[n].record
        /\ migDir[n].record.binding_token.shape = "ok" }

MigFingerprints ==
    { uuid_fingerprint(i, h) : i \in MigIds, h \in MigHashes }
    \cup { legacy_fingerprint(h) : h \in MigHashes }

\* C29: a token migrate_record rewrote has a changed payload under the
\* signature it had, and verify_binding_token answers "Invalid token
\* signature" for it whatever fingerprint and time it is presented with; a
\* call on a record that is version 2.0 and has a document_id leaves the
\* whole directory as it was.
C29_MigrationAndTokens ==
    /\ \A n \in RewrittenFiles, f \in MigFingerprints, t \in MigInstants :
          verify_binding_token(ProcessKey, migDir[n].record.binding_token, f, t)
              = VerifyReturn(FALSE, "Invalid token signature")
    /\ (migrated /= NoMigration /\ migrated.rewritten) =>
          LET old == migrated.before[migrated.record_file].record.binding_token
              new == migDir[migrated.new_file].record.binding_token
          IN  /\ migrated.new_file \in RewrittenFiles
              /\ new.payload /= old.payload
              /\ new.payload.document_id = migrated.new_file.id
              /\ new.signature = old.signature
    /\ (migrated /= NoMigration /\ migrated.verification /= NotVerified
            /\ migrated.new_file \in RewrittenFiles) =>
          migrated.verification.result = VerifyReturn(FALSE, "Invalid token signature")
    /\ (migrated /= NoMigration
            /\ already_migrated(migrated.before[migrated.record_file].record)) =>
          /\ migDir = migrated.before
          /\ migrated.success
          /\ migrated.message = "Already migrated"

\* A migrated record is handed to migrate_record again, and its rewritten
\* token is then presented, unexpired, with the fingerprint hash it names.
C29_Witness ==
    /\ migrated /= NoMigration
    /\ migrated.message = "Already migrated"
    /\ migrated.record_file \in RewrittenFiles
    /\ migrated.verification /= NotVerified
    /\ migrated.verification.fingerprint.fingerprint_hash
          = migDir[migrated.record_file].record.binding_token.payload.fingerprint_hash
    /\ migrated.verification.time
          <= migDir[migrated.record_file].record.binding_token.payload.expires_at
    /\ ~migrated.verification.result.valid

---------------------------------------------------------------------------
(* C30 *)

Finished(w) == flow[w].pc = "returned"

\* C30: the files of a workflow call that has returned hold what that call
\* wrote: its QR image at its qr_path and, when it embedded, the document
\* with that image at its embedded path; and two calls in progress or
\* returned never have the same QR path.
C30_DistinctOutputs ==
    /\ \A w \in Workers :
          Finished(w) =>
              /\ outputs[flow[w].qr_path]
                    = QrContent(flow[w].mode, flow[w].qr_data, flow[w].document, w)
              /\ flow[w].auto_embed =>
                    outputs[embedded_doc_path(flow[w].mode, flow[w].document, flow[w].qr_path)]
                        = EmbeddedContent(flow[w].document,
                              QrContent(flow[w].mode, flow[w].qr_data, flow[w].document, w))
    /\ \A v, w \in Workers :
          (v /= w /\ flow[v].pc /= "idle" /\ flow[w].pc /= "idle") =>
              flow[v].qr_path /= flow[w].qr_path

============================================================================
